---- MODULE Spec2Model ----
(***************************************************************************)
(* Mayondo Furniture: stock ledger, sale valuation and record identifiers. *)
(*                                                                         *)
(* The relational store is modelled as three tables (sets of rows keyed by *)
(* the primary key id): Sale, Stock and Product, plus the Notification     *)
(* table and the accounts of the Manager and the Employee group.           *)
(* Django runs in autocommit mode (no transaction.atomic or                *)
(* select_for_update anywhere in the views), so every ORM statement is one *)
(* atomic step and a request is a sequence of such steps.  Money is kept   *)
(* in hundredths (two decimal places, as the DecimalFields do).            *)
(***************************************************************************)
EXTENDS Integers, Sequences, FiniteSets, TLC

VARIABLES
    sales,          \* Sale table: set of rows
    stock,          \* Stock table: set of rows (lots)
    products,       \* Product table: set of rows
    notifications,  \* Notification table: sequence of rows, in creation order
    nextNotificationId,  \* next primary key of the Notification table
    nextSaleId,     \* next primary key of the Sale table (AUTOINCREMENT)
    nextStockId,    \* next primary key of the Stock table
    managers,       \* the users of the Manager group
    employees,      \* the users of the Employee group
    today,          \* the current calendar day (date.today())
    pc,             \* pc[p]: where request handler p stands
    req,            \* req[p]: the locals of the request p is handling
    received,       \* ghost: received[prod] = quantity received by addStock
    calc            \* the Sale.clean valuation harness: inputs and result

vars == <<sales, stock, products, notifications, nextNotificationId, nextSaleId,
          nextStockId, managers, employees, today, pc, req, received, calc>>

dbvars == <<sales, stock, products, notifications, nextNotificationId, nextSaleId,
            nextStockId, managers, employees, received>>

----------------------------------------------------------------------------
(* Bounds of the model *)

MaxDay == 2          \* calendar days 1..MaxDay
MaxQty == 2          \* quantities submitted in forms: 0..MaxQty
MaxSaleRows == 2     \* Sale rows ever inserted, one request at a time
MaxStockRows == 2    \* Stock rows ever inserted, one request at a time
RaceSaleRows == 2    \* Sale rows ever inserted, requests interleaved
RaceStockRows == 1   \* Stock rows ever inserted, requests interleaved
MaxCalcQty == 7      \* valuation harness: quantities 0..MaxCalcQty
MaxCalcPrice == 21   \* valuation harness: unit prices 0..MaxCalcPrice (hundredths)

(* Program constants *)

SeqWidth == 4            \* f'{new_seq:04d}'
TransportFeeNum == 5     \* Decimal('0.05'), in hundredths
LowStockThreshold == 5   \* "0 < total_quantity < 5" / "total_quantity >= 5"

Procs == {1, 2}          \* concurrent request handlers (worker threads)

PRODUCT_CHOICES == {"Timber", "Sofa", "Tables", "Cupboards", "Drawer", "Poles"}
PRODUCT_TYPE_CHOICES == {"Wood", "Furniture"}

\* request.user of a request without a login session
AnonymousUser == "anonymous"

\* the usernames posted to addEmployee
UsernameInputs == {"emp", "temp"}

NoRow == [id |-> 0]

----------------------------------------------------------------------------
(* Generic helpers *)

\* Sum('quantity') over a set of rows
RECURSIVE SumQuantity(_)
SumQuantity(S) ==
    IF S = {} THEN 0
    ELSE LET x == CHOOSE y \in S : TRUE IN x.quantity + SumQuantity(S \ {x})

Perms(S) ==
    {f \in [1..Cardinality(S) -> S] : \A x \in S : \E i \in 1..Cardinality(S) : f[i] = x}

----------------------------------------------------------------------------
(* Record identifiers: <PREFIX>-<YYYYMMDD>-<NNNN>.  A product_id is modelled *)
(* as [day, digits]: the table fixes the prefix, day stands for the         *)
(* YYYYMMDD part and digits is the decimal string after the last '-'.       *)

RECURSIVE Digits(_)
Digits(n) == IF n < 10 THEN <<n>> ELSE Append(Digits(n \div 10), n % 10)

RECURSIVE ZeroPad(_, _)
ZeroPad(ds, w) == IF Len(ds) >= w THEN ds ELSE ZeroPad(<<0>> \o ds, w)

\* f'{new_seq:04d}'
FormatSeq(n) == ZeroPad(Digits(n), SeqWidth)

\* int(product_id.split('-')[-1])
RECURSIVE ParseSeq(_)
ParseSeq(ds) ==
    IF Len(ds) = 0 THEN 0
    ELSE 10 * ParseSeq(SubSeq(ds, 1, Len(ds) - 1)) + ds[Len(ds)]

\* int(s) raises ValueError unless s is a non-empty string of decimal digits;
\* a character that is not a digit is modelled as a value above 9
IntRaises(ds) == Len(ds) = 0 \/ \E i \in 1..Len(ds) : ds[i] \notin 0..9

\* string comparison a <= b, as order_by('product_id') compares
RECURSIVE LexLeq(_, _)
LexLeq(a, b) ==
    IF Len(a) = 0 THEN TRUE
    ELSE IF Len(b) = 0 THEN FALSE
    ELSE IF a[1] # b[1] THEN a[1] < b[1]
    ELSE LexLeq(Tail(a), Tail(b))

\* filter(product_id__startswith=f'<PREFIX>-{date_str}').order_by('product_id').last()
LastOfDay(table, day) ==
    LET todays == {r \in table : r.product_id.day = day} IN
    IF todays = {} THEN NoRow
    ELSE CHOOSE r \in todays :
            \A o \in todays : LexLeq(o.product_id.digits, r.product_id.digits)

\* the block without the product_id__startswith filter on today's prefix
NextProductIdAnyDay(table, day) ==
    LET latest == IF table = {} THEN NoRow
                  ELSE CHOOSE r \in table :
                          \A o \in table : LexLeq(o.product_id.digits, r.product_id.digits)
        new_seq == IF latest # NoRow THEN ParseSeq(latest.product_id.digits) + 1 ELSE 1
    IN  [day |-> day, digits |-> FormatSeq(new_seq)]

\* the "if not self.product_id" block of Sale.save and Stock.save
NextProductId(table, day) ==
    LET latest == LastOfDay(table, day)
        new_seq == IF latest # NoRow THEN ParseSeq(latest.product_id.digits) + 1 ELSE 1
    IN  [day |-> day, digits |-> FormatSeq(new_seq)]

\* last_seq = int(today_sales.product_id.split('-')[-1]) raises ValueError
SeqRaises(table, day) ==
    LET latest == LastOfDay(table, day)
    IN  latest # NoRow /\ IntRaises(latest.product_id.digits)

\* a column without unique=True
NoUniqueConstraint(table, r) == TRUE

\* unique=True on product_id: may row r be written into table?
UniqueProductId(table, r) ==
    \A o \in table : o.id # r.id => o.product_id # r.product_id

----------------------------------------------------------------------------
(* Sale valuation *)

\* quantize with rounding=ROUND_HALF_EVEN
QuantizeHalfEven(units, fraction) ==
    IF fraction % 100 = 50 /\ (units + fraction \div 100) % 2 = 0
    THEN units + fraction \div 100
    ELSE units + (fraction + 50) \div 100

\* Decimal.quantize(Decimal('0.01'), rounding=ROUND_HALF_UP) of the amount
\* of units hundredths plus fraction ten-thousandths, both >= 0
QuantizeHalfUp(units, fraction) == units + (fraction + 50) \div 100

\* The "auto-calculate total sales amount" block of Sale.clean; unit_price
\* and the result are in hundredths
ComputeTotal(quantity, unit_price, transport_required) ==
    LET base_amount == quantity * unit_price
        transport_fee == base_amount * TransportFeeNum   \* in ten-thousandths
    IN  IF transport_required
        THEN QuantizeHalfUp(base_amount, transport_fee)
        ELSE QuantizeHalfUp(base_amount, 0)

\* full_clean with a clean() that leaves total_sales_amount as submitted
SaleFullCleanKeepTotal(inst, day) ==
    [errors |->
        (IF inst.date > day THEN {"date"} ELSE {})
        \cup (IF inst.quantity <= 0 THEN {"quantity"} ELSE {})
        \cup (IF inst.unit_price <= 0 THEN {"unit_price"} ELSE {})
        \cup (IF inst.product_name \notin PRODUCT_CHOICES THEN {"product_name"} ELSE {})
        \cup (IF inst.product_type \notin PRODUCT_TYPE_CHOICES THEN {"product_type"} ELSE {}),
     inst |-> inst]

\* a Sale.clean without the check of the quantity
SaleFullCleanAnyQuantity(inst, day) ==
    LET errs ==
            (IF inst.date > day THEN {"date"} ELSE {})
            \cup (IF inst.unit_price <= 0 THEN {"unit_price"} ELSE {})
            \cup (IF inst.product_name \notin PRODUCT_CHOICES THEN {"product_name"} ELSE {})
            \cup (IF inst.product_type \notin PRODUCT_TYPE_CHOICES THEN {"product_type"} ELSE {})
        reached == {"date", "unit_price"} \cap errs = {}
    IN  [errors |-> errs,
         inst |-> IF reached
                  THEN [inst EXCEPT !.total_sales_amount =
                            ComputeTotal(inst.quantity, inst.unit_price,
                                         inst.transport_required)]
                  ELSE inst]

\* Sale.full_clean: the field checks and Sale.clean.  Returns the instance
\* as clean() leaves it and the set of fields in error.
SaleFullClean(inst, day) ==
    LET errs ==
            (IF inst.date > day THEN {"date"} ELSE {})
            \cup (IF inst.quantity <= 0 THEN {"quantity"} ELSE {})
            \cup (IF inst.unit_price <= 0 THEN {"unit_price"} ELSE {})
            \cup (IF inst.product_name \notin PRODUCT_CHOICES THEN {"product_name"} ELSE {})
            \cup (IF inst.product_type \notin PRODUCT_TYPE_CHOICES THEN {"product_type"} ELSE {})
        \* clean() raises at the first failed check, before the total is set
        reached == {"date", "quantity", "unit_price"} \cap errs = {}
    IN  [errors |-> errs,
         inst |-> IF reached
                  THEN [inst EXCEPT !.total_sales_amount =
                            ComputeTotal(inst.quantity, inst.unit_price,
                                         inst.transport_required)]
                  ELSE inst]

\* a Stock.clean without the check of the quantity
StockFullCleanAnyQuantity(inst, day) ==
    LET errs ==
            (IF inst.date > day THEN {"date"} ELSE {})
            \cup (IF inst.product_name \notin PRODUCT_CHOICES THEN {"product_name"} ELSE {})
            \cup (IF inst.product_type \notin PRODUCT_TYPE_CHOICES THEN {"product_type"} ELSE {})
            \cup (IF inst.unit_cost <= 0 THEN {"unit_cost"} ELSE {})
    IN  [errors |-> errs,
         inst |-> IF errs = {}
                  THEN [inst EXCEPT !.total_cost = inst.quantity * inst.unit_cost]
                  ELSE inst]

\* a Stock.clean without the check of the unit cost
StockFullCleanAnyCost(inst, day) ==
    LET errs ==
            (IF inst.date > day THEN {"date"} ELSE {})
            \cup (IF inst.quantity < 0 THEN {"quantity"} ELSE {})
            \cup (IF inst.product_name \notin PRODUCT_CHOICES THEN {"product_name"} ELSE {})
            \cup (IF inst.product_type \notin PRODUCT_TYPE_CHOICES THEN {"product_type"} ELSE {})
    IN  [errors |-> errs,
         inst |-> IF errs = {}
                  THEN [inst EXCEPT !.total_cost = inst.quantity * inst.unit_cost]
                  ELSE inst]

\* a Stock.clean that leaves total_cost as it finds it
StockFullCleanKeepTotal(inst, day) ==
    [errors |->
        (IF inst.date > day THEN {"date"} ELSE {})
        \cup (IF inst.quantity < 0 THEN {"quantity"} ELSE {})
        \cup (IF inst.product_name \notin PRODUCT_CHOICES THEN {"product_name"} ELSE {})
        \cup (IF inst.product_type \notin PRODUCT_TYPE_CHOICES THEN {"product_type"} ELSE {})
        \cup (IF inst.unit_cost <= 0 THEN {"unit_cost"} ELSE {}),
     inst |-> inst]

\* Stock.full_clean: the field checks and Stock.clean
StockFullClean(inst, day) ==
    LET errs ==
            (IF inst.date > day THEN {"date"} ELSE {})
            \cup (IF inst.quantity < 0 THEN {"quantity"} ELSE {})
            \cup (IF inst.product_name \notin PRODUCT_CHOICES THEN {"product_name"} ELSE {})
            \cup (IF inst.product_type \notin PRODUCT_TYPE_CHOICES THEN {"product_type"} ELSE {})
            \cup (IF inst.unit_cost <= 0 THEN {"unit_cost"} ELSE {})
    IN  [errors |-> errs,
         inst |-> IF errs = {}
                  THEN [inst EXCEPT !.total_cost = inst.quantity * inst.unit_cost]
                  ELSE inst]

----------------------------------------------------------------------------
(* The tables *)

\* a Product row
Product(id, name, type) == [id |-> id, name |-> name, product_type |-> type]

\* Product.objects.filter(name=..., product_type=...)
ProductRows(prods, name, type) ==
    {r \in prods : r.name = name /\ r.product_type = type}

\* a Product table without the unique_together constraint
NoUniqueTogether(prods, name, type) == TRUE

\* Meta.unique_together = ['name', 'product_type']: may a row for the pair
\* be inserted?
UniqueTogether(prods, name, type) == ProductRows(prods, name, type) = {}

\* the primary key the database gives the next Product row; Product rows
\* are never deleted
NextProductPk(prods) ==
    IF prods = {} THEN 1
    ELSE LET r == CHOOSE x \in prods : \A y \in prods : y.id <= x.id IN r.id + 1

\* Product.objects.create(name=..., product_type=...), the constraint checked
\* by the caller
ProductCreate(prods, name, type) ==
    prods \cup {Product(NextProductPk(prods), name, type)}

\* the primary key of the row Product.objects.get(...) returns
ProductRef(prods, name, type) == (CHOOSE r \in ProductRows(prods, name, type) : TRUE).id

\* Stock.objects.filter(product_name=..., product_type=...)
LotsOf(table, name, type) ==
    {r \in table : r.product_name = name /\ r.product_type = type}

\* the filter on product_name and quantity alone, any product_type
PositiveLotsOfName(table, name, type) ==
    {r \in table : r.product_name = name /\ r.quantity > 0}

\* ....filter(product_name=..., product_type=..., quantity__gt=0)
PositiveLotsOf(table, name, type) == {r \in LotsOf(table, name, type) : r.quantity > 0}

\* ....aggregate(total_quantity=Sum('quantity'))['total_quantity'] or 0
TotalAvailable(table, name, type) == SumQuantity(LotsOf(table, name, type))

\* a plausible slip: order_by('date'), oldest first
OrderByDateAsc(S) ==
    {f \in Perms(S) : \A i, j \in 1..Cardinality(S) : i < j => f[i].date <= f[j].date}

\* ....order_by('-date'): every order the database may return, rows of equal
\* date in either order
OrderByDateDesc(S) ==
    {f \in Perms(S) : \A i, j \in 1..Cardinality(S) : i < j => f[i].date >= f[j].date}

\* Product.objects.get(...) / except DoesNotExist: Product.objects.create(...)
\* as one step: the table afterwards
GetOrCreateProduct(prods, name, type) ==
    IF ProductRows(prods, name, type) # {} THEN prods
    ELSE ProductCreate(prods, name, type)

\* super().save(): UPDATE the row with this primary key, INSERT it if no row
\* was updated
WriteRow(table, r) == {o \in table : o.id # r.id} \cup {r}

\* Stock.save of an instance that already has its product_id (the per-lot
\* record.save() of addSale, editStock, updateStock): get-or-create the
\* Product, full_clean, write.  The Product is created before full_clean runs.
StockSave(tbl, prods, inst, day) ==
    LET named == inst.product_name # "" /\ inst.product_type # ""
        prods2 == IF named
                  THEN GetOrCreateProduct(prods, inst.product_name, inst.product_type)
                  ELSE prods
        withRef == IF named
                   THEN [inst EXCEPT !.product_ref =
                            ProductRef(prods2, inst.product_name, inst.product_type)]
                   ELSE inst
        cleaned == StockFullClean(withRef, day)
    IN  IF cleaned.errors # {}
        THEN [ok |-> FALSE, error |-> "ValidationError", stock |-> tbl, products |-> prods2]
        ELSE IF ~UniqueProductId(tbl, cleaned.inst)
        THEN [ok |-> FALSE, error |-> "IntegrityError", stock |-> tbl, products |-> prods2]
        ELSE [ok |-> TRUE, error |-> "", stock |-> WriteRow(tbl, cleaned.inst),
              products |-> prods2]

\* Sale.save of an instance that already has its product_id (editSale,
\* updateSale): full_clean, get-or-create the Product, write.
SaleSave(tbl, prods, inst, day) ==
    LET cleaned == SaleFullClean(inst, day)
        prods2 == GetOrCreateProduct(prods, inst.product_name, inst.product_type)
        withRef == [cleaned.inst EXCEPT
                        !.product_ref = ProductRef(prods2, inst.product_name,
                                                   inst.product_type)]
    IN  IF cleaned.errors # {}
        THEN [ok |-> FALSE, error |-> "ValidationError", sales |-> tbl, products |-> prods]
        ELSE IF ~UniqueProductId(tbl, withRef)
        THEN [ok |-> FALSE, error |-> "IntegrityError", sales |-> tbl, products |-> prods2]
        ELSE [ok |-> TRUE, error |-> "", sales |-> WriteRow(tbl, withRef),
              products |-> prods2]

----------------------------------------------------------------------------
(* Requests.  A form is what the browser posts; the instance is what        *)
(* ModelForm builds from it.                                                *)

ProductInputs == {<<"Timber", "Wood">>, <<"Sofa", "Furniture">>}
PriceInputs == {0, 10}          \* unit prices posted, in hundredths
CostInputs == {0, 5}            \* unit costs posted, in hundredths
TotalInputs == {0, 7}           \* total_sales_amount / total_cost as posted
TypeInputs == {"Wood", "Furniture", "Metal", ""}   \* updateSale / updateStock

\* every form over the inputs above; day + 1 is a date in the future
SaleForms(day) ==
    [product : ProductInputs, quantity : 0..MaxQty, unit_price : PriceInputs,
     total_sales_amount : TotalInputs, date : {day, day + 1},
     transport_required : BOOLEAN]

StockForms(day) ==
    [product : ProductInputs, quantity : (-1)..MaxQty, unit_cost : CostInputs,
     total_cost : TotalInputs, date : {day - 1, day, day + 1}]

NoProductId == [day |-> 0, digits |-> <<>>]

\* construct_instance: the form's cleaned_data written onto the instance
SaleFromForm(inst, f) ==
    [inst EXCEPT !.product_name = f.product[1], !.product_type = f.product[2],
                 !.quantity = f.quantity, !.unit_price = f.unit_price,
                 !.total_sales_amount = f.total_sales_amount, !.date = f.date,
                 !.transport_required = f.transport_required]

StockFromForm(inst, f) ==
    [inst EXCEPT !.product_name = f.product[1], !.product_type = f.product[2],
                 !.quantity = f.quantity, !.unit_cost = f.unit_cost,
                 !.total_cost = f.total_cost, !.date = f.date]

\* Sale() / Stock() with the model's field defaults
NewSale ==
    [id |-> 0, product_id |-> NoProductId, product_name |-> "Timber",
     product_type |-> "Furniture", product_ref |-> 0, quantity |-> 0, date |-> 0,
     unit_price |-> 0, total_sales_amount |-> 0, transport_required |-> FALSE]

NewStock ==
    [id |-> 0, product_id |-> NoProductId, date |-> 0, product_name |-> "Timber",
     product_type |-> "Furniture", product_ref |-> 0, quantity |-> 0,
     unit_cost |-> 0, total_cost |-> 0]

NoReq ==
    [op |-> "", product_name |-> "", product_type |-> "", quantity_to_sell |-> 0,
     total_available |-> 0, inst |-> NoRow, stock_records |-> <<>>,
     remaining_to_deduct |-> 0, stock0 |-> {}, sales0 |-> {}, products0 |-> {},
     result |-> "", stock_data |-> <<>>, user |-> "",
     total_revenue |-> 0, cost_scale |-> 1, total_cost_of_sales |-> 0, profit |-> 0,
     within_24h |-> FALSE]

NoCalc ==
    [phase |-> "off", quantity |-> 0, unit_price |-> 0,
     transport_required |-> FALSE, result |-> "", total |-> 0]

\* the empty store, with the accounts mgrs in the Manager group
InitStore(mgrs) ==
    /\ managers = mgrs
    /\ employees = {}
    /\ sales = {}
    /\ stock = {}
    /\ products = {}
    /\ notifications = <<>>
    /\ nextNotificationId = 1
    /\ nextSaleId = 1
    /\ nextStockId = 1
    /\ today = 1
    /\ pc = [p \in Procs |-> "idle"]
    /\ req = [p \in Procs |-> NoReq]
    /\ received = [prod \in PRODUCT_CHOICES \X PRODUCT_TYPE_CHOICES |-> 0]

InitWith(mgrs) == InitStore(mgrs) /\ calc = NoCalc

\* the store before any manager account exists
InitNoManager == InitWith({})

Init == InitWith({"mgr"})

\* the view returns its response: locals are the request's locals, result
\* the outcome it reports
Respond(p, locals, result) ==
    /\ pc' = [pc EXCEPT ![p] = "done"]
    /\ req' = [req EXCEPT ![p] = [locals EXCEPT !.result = result]]

Goto(p, label, locals) ==
    /\ pc' = [pc EXCEPT ![p] = label]
    /\ req' = [req EXCEPT ![p] = locals]

\* the response has been sent; the handler takes the next request
Return(p) ==
    /\ pc[p] = "done"
    /\ pc' = [pc EXCEPT ![p] = "idle"]
    /\ req' = [req EXCEPT ![p] = NoReq]
    /\ UNCHANGED <<dbvars, today, calc>>

Op(name) == [NoReq EXCEPT !.op = name]

\* Notification.objects.create(user=manager, ...) for every manager
\* a Notification row; message names the text ("sale", "stock", "low_stock",
\* "restocked"), about the product the text mentions
NewNotification(id, user, message, kind, about) ==
    [id |-> id, user |-> user, message |-> message, activity_type |-> kind,
     about |-> about, is_read |-> FALSE, created_at |-> today]

\* the primary key of the next row, the rows of notifs with a key from
\* nextNotificationId on being those created by the running statement
FreshId(notifs) ==
    nextNotificationId
        + Cardinality({i \in 1..Len(notifs) : notifs[i].id >= nextNotificationId})

\* a notification for one of the users only
NotifyOne(notifs, users, message, kind, about) ==
    IF users = {} THEN notifs
    ELSE Append(notifs, NewNotification(FreshId(notifs), CHOOSE x \in users : TRUE,
                                        message, kind, about))

RECURSIVE NotifyAll(_, _, _, _, _)
NotifyAll(notifs, users, message, kind, about) ==
    IF users = {} THEN notifs
    ELSE LET u == CHOOSE x \in users : TRUE IN
         NotifyAll(Append(notifs, NewNotification(FreshId(notifs), u, message, kind,
                                                  about)),
                   users \ {u}, message, kind, about)

----------------------------------------------------------------------------
(* addSale (views.py).  One action per ORM statement of the POST branch.    *)

\* form = SaleForm(request.POST); form.is_valid(); the consolidated-stock
\* aggregate
AddSaleBegin(p, f, max_rows) ==
    /\ pc[p] = "idle"
    /\ LET inst == SaleFromForm(NewSale, f)
           cleaned == SaleFullClean(inst, today)
           total == TotalAvailable(stock, f.product[1], f.product[2])
           locals == [NoReq EXCEPT !.op = "addSale",
                                   !.product_name = f.product[1],
                                   !.product_type = f.product[2],
                                   !.quantity_to_sell = f.quantity,
                                   !.total_available = total,
                                   !.inst = cleaned.inst,
                                   !.stock0 = stock, !.sales0 = sales,
                                   !.products0 = products]
       IN  IF cleaned.errors # {}
           THEN Respond(p, locals, "ValidationError")
           ELSE /\ (total > 0 /\ total >= f.quantity) => nextSaleId <= max_rows
                /\ Goto(p, "check_item", locals)
    /\ UNCHANGED <<dbvars, today, calc>>

\* a plausible slip: the comparison off by one
AvailabilityOffByOne(total_available, stock_item, quantity_to_sell) ==
    IF total_available <= 0 \/ stock_item = {} THEN "NotAvailable"
    ELSE IF total_available + 1 < quantity_to_sell THEN "InsufficientStock"
    ELSE "ok"

\* the availability checks without the first one
AvailabilityOfQuantity(total_available, stock_item, quantity_to_sell) ==
    IF total_available < quantity_to_sell THEN "InsufficientStock" ELSE "ok"

\* the two availability checks: "if total_available <= 0 or not stock_item"
\* and "if total_available < quantity_to_sell"
Availability(total_available, stock_item, quantity_to_sell) ==
    IF total_available <= 0 \/ stock_item = {} THEN "NotAvailable"
    ELSE IF total_available < quantity_to_sell THEN "InsufficientStock"
    ELSE "ok"

\* stock_item = ....filter(..., quantity__gt=0).first() and the checks
AddSaleCheck(p) ==
    /\ pc[p] = "check_item"
    /\ LET stock_item == PositiveLotsOf(stock, req[p].product_name, req[p].product_type)
           verdict == Availability(req[p].total_available, stock_item,
                                   req[p].quantity_to_sell)
       IN  IF verdict # "ok"
           THEN Respond(p, req[p], verdict)
           ELSE Goto(p, "save_sale", req[p])
    /\ UNCHANGED <<dbvars, today, calc>>

\* new_sale = form.save(): Sale.save runs full_clean and looks the Product
\* up; when it is found, the last ID of the day is read
AddSaleSave(p) ==
    /\ pc[p] = "save_sale"
    /\ LET cleaned == SaleFullClean(req[p].inst, today)
           name == req[p].inst.product_name
           type == req[p].inst.product_type
       IN  IF cleaned.errors # {}
           THEN Respond(p, req[p], "ValidationError")
           ELSE IF ProductRows(products, name, type) = {}
           THEN Goto(p, "create_product", [req[p] EXCEPT !.inst = cleaned.inst])
           ELSE IF SeqRaises(sales, today)
           THEN Respond(p, req[p], "ValueError")
           ELSE Goto(p, "insert_sale",
                     [req[p] EXCEPT !.inst =
                         [cleaned.inst EXCEPT
                             !.product_ref = ProductRef(products, name, type),
                             !.product_id = NextProductId(sales, today)]])
    /\ UNCHANGED <<dbvars, today, calc>>

\* except Product.DoesNotExist: Product.objects.create(...)
AddSaleCreateProduct(p) ==
    /\ pc[p] = "create_product"
    /\ LET name == req[p].inst.product_name
           type == req[p].inst.product_type
       IN  IF UniqueTogether(products, name, type)
           THEN /\ products' = ProductCreate(products, name, type)
                /\ Goto(p, "sale_id",
                        [req[p] EXCEPT !.inst.product_ref = NextProductPk(products)])
           ELSE /\ Respond(p, req[p], "IntegrityError")
                /\ UNCHANGED products
    /\ UNCHANGED <<sales, stock, notifications, nextNotificationId, nextSaleId, nextStockId, received,
                   managers, employees, today, calc>>

\* the last ID of the day is read and the new one computed
AddSaleId(p) ==
    /\ pc[p] = "sale_id"
    /\ IF SeqRaises(sales, today)
       THEN Respond(p, req[p], "ValueError")
       ELSE Goto(p, "insert_sale",
                 [req[p] EXCEPT !.inst.product_id = NextProductId(sales, today)])
    /\ UNCHANGED <<dbvars, today, calc>>

\* super().save(): the INSERT, under the unique constraint on product_id
AddSaleInsert(p) ==
    /\ pc[p] = "insert_sale"
    /\ LET row == [req[p].inst EXCEPT !.id = nextSaleId]
       IN  IF UniqueProductId(sales, row)
           THEN /\ sales' = sales \cup {row}
                /\ nextSaleId' = nextSaleId + 1
                /\ Goto(p, "query_lots", [req[p] EXCEPT !.inst = row])
           ELSE /\ Respond(p, req[p], "IntegrityError")
                /\ UNCHANGED <<sales, nextSaleId>>
    /\ UNCHANGED <<stock, products, notifications, nextNotificationId, nextStockId, received, managers, employees, today, calc>>

\* stock_records = ....filter(..., quantity__gt=0).order_by('-date'), read
\* when the for loop starts
AddSaleQueryLots(p) ==
    /\ pc[p] = "query_lots"
    /\ \E records \in OrderByDateDesc(PositiveLotsOf(stock, req[p].product_name,
                                                      req[p].product_type)) :
          Goto(p, IF Len(records) = 0 THEN "notify" ELSE "deduct",
               [req[p] EXCEPT !.stock_records = records,
                              !.remaining_to_deduct = req[p].quantity_to_sell])
    /\ UNCHANGED <<dbvars, today, calc>>

\* a plausible slip: the else branch zeroes the lot and forgets to reduce
\* remaining_to_deduct
DeductNoCarry(record, remaining_to_deduct) ==
    IF record.quantity >= remaining_to_deduct
    THEN [record |-> [record EXCEPT !.quantity = record.quantity - remaining_to_deduct],
          remaining_to_deduct |-> 0]
    ELSE [record |-> [record EXCEPT !.quantity = 0],
          remaining_to_deduct |-> remaining_to_deduct]

\* one iteration of "for record in stock_records"
DeductFrom(record, remaining_to_deduct) ==
    IF record.quantity >= remaining_to_deduct
    THEN [record |-> [record EXCEPT !.quantity = record.quantity - remaining_to_deduct],
          remaining_to_deduct |-> 0]
    ELSE [record |-> [record EXCEPT !.quantity = 0],
          remaining_to_deduct |-> remaining_to_deduct - record.quantity]

AddSaleDeduct(p) ==
    /\ pc[p] = "deduct"
    /\ LET step == DeductFrom(Head(req[p].stock_records), req[p].remaining_to_deduct)
           saved == StockSave(stock, products, step.record, today)
           rest == Tail(req[p].stock_records)
       IN  /\ stock' = saved.stock
           /\ products' = saved.products
           /\ IF ~saved.ok
              THEN Respond(p, req[p], saved.error)
              ELSE Goto(p, IF step.remaining_to_deduct <= 0 \/ rest = <<>>
                           THEN "notify" ELSE "deduct",
                        [req[p] EXCEPT !.stock_records = rest,
                                       !.remaining_to_deduct = step.remaining_to_deduct])
    /\ UNCHANGED <<sales, notifications, nextNotificationId, nextSaleId, nextStockId, received, managers, employees, today, calc>>

\* the manager notifications, the remaining-stock aggregate and the redirect
AddSaleFinish(p) ==
    /\ pc[p] = "notify"
    /\ notifications' = NotifyAll(notifications, managers, "sale", "success",
                                  <<req[p].product_name, req[p].product_type>>)
    /\ nextNotificationId' = FreshId(notifications')
    /\ Respond(p, req[p], "ok")
    /\ UNCHANGED <<sales, stock, products, nextSaleId, nextStockId, received, managers, employees, today, calc>>

AddSale(p, Forms, max_rows) ==
    \/ \E f \in Forms : AddSaleBegin(p, f, max_rows)
    \/ AddSaleCheck(p)
    \/ AddSaleSave(p)
    \/ AddSaleCreateProduct(p)
    \/ AddSaleId(p)
    \/ AddSaleInsert(p)
    \/ AddSaleQueryLots(p)
    \/ AddSaleDeduct(p)
    \/ AddSaleFinish(p)
    \/ Return(p)

----------------------------------------------------------------------------
(* addStock (views.py) *)

\* form = StockForm(request.POST); form.is_valid(); form.save(): Stock.save
\* looks the Product up; when it is found, full_clean runs and the last ID of
\* the day is read
AddStockBegin(p, f, max_rows) ==
    /\ pc[p] = "idle"
    /\ LET inst == StockFromForm(NewStock, f)
           checked == StockFullClean(inst, today)
           locals == [NoReq EXCEPT !.op = "addStock",
                                   !.product_name = f.product[1],
                                   !.product_type = f.product[2],
                                   !.quantity_to_sell = f.quantity,
                                   !.inst = inst, !.stock0 = stock,
                                   !.sales0 = sales, !.products0 = products]
       IN  IF checked.errors # {}
           THEN Respond(p, locals, "ValidationError")
           ELSE /\ nextStockId <= max_rows
                /\ IF ProductRows(products, f.product[1], f.product[2]) = {}
                   THEN Goto(p, "create_stock_product",
                             [locals EXCEPT !.inst = checked.inst])
                   ELSE IF SeqRaises(stock, today)
                   THEN Respond(p, locals, "ValueError")
                   ELSE Goto(p, "insert_stock",
                             [locals EXCEPT !.inst =
                                 [checked.inst EXCEPT
                                     !.product_ref = ProductRef(products, f.product[1],
                                                                f.product[2]),
                                     !.product_id = NextProductId(stock, today)]])
    /\ UNCHANGED <<dbvars, today, calc>>

\* except Product.DoesNotExist: Product.objects.create(...)
AddStockCreateProduct(p) ==
    /\ pc[p] = "create_stock_product"
    /\ IF UniqueTogether(products, req[p].product_name, req[p].product_type)
       THEN /\ products' = ProductCreate(products, req[p].product_name,
                                         req[p].product_type)
            /\ Goto(p, "stock_id",
                    [req[p] EXCEPT !.inst.product_ref = NextProductPk(products)])
       ELSE /\ Respond(p, req[p], "IntegrityError")
            /\ UNCHANGED products
    /\ UNCHANGED <<sales, stock, notifications, nextNotificationId, nextSaleId, nextStockId, received,
                   managers, employees, today, calc>>

\* full_clean, then the last ID of the day is read and the new one computed
AddStockId(p) ==
    /\ pc[p] = "stock_id"
    /\ LET checked == StockFullClean(req[p].inst, today)
       IN  IF checked.errors # {}
           THEN Respond(p, req[p], "ValidationError")
           ELSE IF SeqRaises(stock, today)
           THEN Respond(p, req[p], "ValueError")
           ELSE Goto(p, "insert_stock",
                     [req[p] EXCEPT !.inst =
                         [checked.inst EXCEPT
                             !.product_id = NextProductId(stock, today)]])
    /\ UNCHANGED <<dbvars, today, calc>>

\* super().save(): the INSERT, then the manager notifications and the redirect
AddStockInsert(p) ==
    /\ pc[p] = "insert_stock"
    /\ LET row == [req[p].inst EXCEPT !.id = nextStockId]
           prod == <<req[p].product_name, req[p].product_type>>
       IN  IF UniqueProductId(stock, row)
           THEN /\ stock' = stock \cup {row}
                /\ nextStockId' = nextStockId + 1
                /\ received' = [received EXCEPT ![prod] = @ + row.quantity]
                /\ notifications' = NotifyAll(notifications, managers, "stock", "info", prod)
                /\ nextNotificationId' = FreshId(notifications')
                /\ Respond(p, req[p], "ok")
           ELSE /\ Respond(p, req[p], "IntegrityError")
                /\ UNCHANGED <<stock, nextStockId, received, notifications,
                               nextNotificationId>>
    /\ UNCHANGED <<sales, products, nextSaleId, managers, employees, today, calc>>

AddStock(p, Forms, max_rows) ==
    \/ \E f \in Forms : AddStockBegin(p, f, max_rows)
    \/ AddStockCreateProduct(p)
    \/ AddStockId(p)
    \/ AddStockInsert(p)
    \/ Return(p)

----------------------------------------------------------------------------
(* The edit, update and delete views.  get_object_or_404 finds the row or   *)
(* the request ends in a 404 without touching the store, so the actions are *)
(* taken for rows that exist.                                               *)

\* editSale: SaleForm(request.POST, instance=sale_to_edit), is_valid, save
EditSale(p, row, f) ==
    /\ pc[p] = "idle"
    /\ row \in sales
    /\ LET inst == SaleFromForm(row, f)
           checked == SaleFullClean(inst, today)
           saved == SaleSave(sales, products, checked.inst, today)
           locals == [Op("editSale") EXCEPT !.inst = inst, !.sales0 = sales,
                                            !.products0 = products]
       IN  IF checked.errors # {}
           THEN /\ Respond(p, locals, "ValidationError")
                /\ UNCHANGED <<sales, products>>
           ELSE /\ sales' = saved.sales
                /\ products' = saved.products
                /\ Respond(p, locals, IF saved.ok THEN "ok" ELSE saved.error)
    /\ UNCHANGED <<stock, notifications, nextNotificationId, nextSaleId, nextStockId, received,
                   managers, employees, today, calc>>

\* updateSale: sale.product_type = request.POST.get('product_type'); save()
UpdateSale(p, row, new_product_type) ==
    /\ pc[p] = "idle"
    /\ row \in sales
    /\ LET saved == SaleSave(sales, products,
                             [row EXCEPT !.product_type = new_product_type], today)
       IN  /\ sales' = saved.sales
           /\ products' = saved.products
           /\ Respond(p, Op("updateSale"), IF saved.ok THEN "ok" ELSE saved.error)
    /\ UNCHANGED <<stock, notifications, nextNotificationId, nextSaleId, nextStockId, received,
                   managers, employees, today, calc>>

\* a delete that gives the sold quantity back to a lot of the product
DeleteSaleRestocking(p, row) ==
    /\ pc[p] = "idle"
    /\ row \in sales
    /\ sales' = sales \ {row}
    /\ Respond(p, [Op("deleteSale") EXCEPT !.inst = row], "ok")
    /\ LET lots == LotsOf(stock, row.product_name, row.product_type)
           lot == CHOOSE r \in lots : TRUE
       IN  stock' = IF lots = {} THEN stock
                    ELSE (stock \ {lot})
                            \cup {[lot EXCEPT !.quantity = @ + row.quantity]}
    /\ UNCHANGED <<products, notifications, nextNotificationId, nextSaleId, nextStockId, received,
                   managers, employees, today, calc>>

\* deleteSale: sale_to_delete = get_object_or_404(...); sale_to_delete.delete()
DeleteSale(p, row) ==
    /\ pc[p] = "idle"
    /\ row \in sales
    /\ sales' = sales \ {row}
    /\ Respond(p, [Op("deleteSale") EXCEPT !.inst = row], "ok")
    /\ UNCHANGED <<stock, products, notifications, nextNotificationId, nextSaleId, nextStockId, received,
                   managers, employees, today, calc>>

\* editStock: StockForm(request.POST, instance=stock_to_edit), is_valid, save
EditStock(p, row, f) ==
    /\ pc[p] = "idle"
    /\ row \in stock
    /\ LET checked == StockFullClean(StockFromForm(row, f), today)
           saved == StockSave(stock, products, checked.inst, today)
       IN  IF checked.errors # {}
           THEN /\ Respond(p, Op("editStock"), "ValidationError")
                /\ UNCHANGED <<stock, products>>
           ELSE /\ stock' = saved.stock
                /\ products' = saved.products
                /\ Respond(p, Op("editStock"), IF saved.ok THEN "ok" ELSE saved.error)
    /\ UNCHANGED <<sales, notifications, nextNotificationId, nextSaleId, nextStockId, received,
                   managers, employees, today, calc>>

\* updateStock: stock.product_type = request.POST.get('product_type'); save()
UpdateStock(p, row, new_product_type) ==
    /\ pc[p] = "idle"
    /\ row \in stock
    /\ LET saved == StockSave(stock, products,
                              [row EXCEPT !.product_type = new_product_type], today)
       IN  /\ stock' = saved.stock
           /\ products' = saved.products
           /\ Respond(p, Op("updateStock"), IF saved.ok THEN "ok" ELSE saved.error)
    /\ UNCHANGED <<sales, notifications, nextNotificationId, nextSaleId, nextStockId, received,
                   managers, employees, today, calc>>

\* deleteStock: stock_to_delete.delete()
DeleteStock(p, row) ==
    /\ pc[p] = "idle"
    /\ row \in stock
    /\ stock' = stock \ {row}
    /\ Respond(p, Op("deleteStock"), "ok")
    /\ UNCHANGED <<sales, products, notifications, nextNotificationId, nextSaleId, nextStockId, received,
                   managers, employees, today, calc>>

(* The admin site (admin.py): Sale and Stock are registered with the default *)
(* ModelAdmin, whose change form has every editable field, product_id       *)
(* included; saving the form calls the model's save.                        *)

\* SaleAdmin: the change form posted with another sequence part in product_id
SaleAdminChange(p, row, digits) ==
    /\ pc[p] = "idle"
    /\ row \in sales
    /\ LET saved == SaleSave(sales, products,
                             [row EXCEPT !.product_id.digits = digits], today)
       IN  /\ sales' = saved.sales
           /\ products' = saved.products
           /\ Respond(p, Op("SaleAdmin"), IF saved.ok THEN "ok" ELSE saved.error)
    /\ UNCHANGED <<stock, notifications, nextNotificationId, nextSaleId, nextStockId, received,
                   managers, employees, today, calc>>

\* StockAdmin: the same for a lot
StockAdminChange(p, row, digits) ==
    /\ pc[p] = "idle"
    /\ row \in stock
    /\ LET saved == StockSave(stock, products,
                              [row EXCEPT !.product_id.digits = digits], today)
       IN  /\ stock' = saved.stock
           /\ products' = saved.products
           /\ Respond(p, Op("StockAdmin"), IF saved.ok THEN "ok" ELSE saved.error)
    /\ UNCHANGED <<sales, notifications, nextNotificationId, nextSaleId, nextStockId, received,
                   managers, employees, today, calc>>

----------------------------------------------------------------------------
(* dashBoard (views.py) *)

\* Stock.objects.values('product_name', 'product_type'): the combinations
\* that have a lot
StockedProducts(tbl) == {<<r.product_name, r.product_type>> : r \in tbl}

\* a low-stock test per lot instead of per product
LowStockLots(tbl) ==
    {prod \in StockedProducts(tbl) :
        \E r \in LotsOf(tbl, prod[1], prod[2]) :
            0 < r.quantity /\ r.quantity < LowStockThreshold}

LowStockProducts(tbl) ==
    {prod \in StockedProducts(tbl) :
        /\ 0 < TotalAvailable(tbl, prod[1], prod[2])
        /\ TotalAvailable(tbl, prod[1], prod[2]) < LowStockThreshold}

\* a filter without message__icontains="LOW STOCK ALERT"
IsNotificationAbout(n, user, prod) == n.user = user /\ n.about = prod

IsLowStockAlert(n, user, prod) ==
    n.user = user /\ n.message = "low_stock" /\ n.about = prod

\* the first loop of create_low_stock_notifications_consolidated over the
\* (manager, product) pairs whose product is adequately stocked: delete the
\* manager's alerts for the product and, if any was deleted, say "restocked"
RECURSIVE ClearRestocked(_, _)
ClearRestocked(notifs, pairs) ==
    IF pairs = {} THEN notifs
    ELSE LET pair == CHOOSE x \in pairs : TRUE
             kept == SelectSeq(notifs, LAMBDA n : ~IsLowStockAlert(n, pair[1], pair[2]))
             after == IF Len(kept) < Len(notifs)
                      THEN Append(kept, NewNotification(FreshId(kept), pair[1],
                                                        "restocked", "success", pair[2]))
                      ELSE kept
         IN  ClearRestocked(after, pairs \ {pair})

\* created_at >= datetime.now() - timedelta(hours=24), with days for clock:
\* an alert of yesterday is inside the window or not, depending on the hour
\* (within_24h)
CreatedRecently(n, within_24h) ==
    n.created_at >= today \/ (n.created_at = today - 1 /\ within_24h)

\* the second loop, over the (manager, low product) pairs: alert unless the
\* manager got an alert for the product in the last 24 hours
RECURSIVE AlertLowStock(_, _, _)
AlertLowStock(notifs, pairs, within_24h) ==
    IF pairs = {} THEN notifs
    ELSE LET pair == CHOOSE x \in pairs : TRUE
             existing_notification ==
                 \E i \in 1..Len(notifs) :
                     /\ IsLowStockAlert(notifs[i], pair[1], pair[2])
                     /\ CreatedRecently(notifs[i], within_24h)
             after == IF existing_notification THEN notifs
                      ELSE Append(notifs, NewNotification(FreshId(notifs), pair[1],
                                                          "low_stock", "warning", pair[2]))
         IN  AlertLowStock(after, pairs \ {pair}, within_24h)

create_low_stock_notifications_consolidated(notifs, tbl, mgrs, within_24h) ==
    LET restocked == {prod \in StockedProducts(tbl) :
                         TotalAvailable(tbl, prod[1], prod[2]) >= LowStockThreshold}
    IN  AlertLowStock(ClearRestocked(notifs, mgrs \X restocked),
                      mgrs \X LowStockProducts(tbl), within_24h)

RECURSIVE SumOf(_, _)
SumOf(rows, field) ==
    IF rows = {} THEN 0
    ELSE LET r == CHOOSE x \in rows : TRUE IN r[field] + SumOf(rows \ {r}, field)

\* sale_amount of the profit loop, in hundredths; the fallback branch adds
\* the 5% fee in floating point, cut here to the hundredth
SaleAmount(sale) ==
    IF sale.unit_price # 0 /\ sale.total_sales_amount # 0
    THEN sale.total_sales_amount
    ELSE IF sale.unit_price # 0 /\ sale.quantity # 0
    THEN LET sale_amount == sale.unit_price * sale.quantity
         IN  IF sale.transport_required
             THEN sale_amount + (sale_amount * TransportFeeNum) \div 100
             ELSE sale_amount
    ELSE 0

RECURSIVE Gcd(_, _)
Gcd(a, b) == IF b = 0 THEN a ELSE Gcd(b, a % b)

\* the least common multiple of 1..n
RECURSIVE LcmUpTo(_)
LcmUpTo(n) == IF n <= 1 THEN 1 ELSE LET l == LcmUpTo(n - 1) IN (l * n) \div Gcd(l, n)

\* The mean unit cost is a quotient by the number of lots of a Product, a
\* float in the code.  The cost figures of the dashboard are kept exactly,
\* in 1/CostScale(tbl) of a hundredth: every possible number of lots
\* divides CostScale(tbl).
CostScale(tbl) == LcmUpTo(Cardinality(tbl))

\* a sale_cost that forgets the quantity sold
SaleCostOfOneUnit(sale, tbl) ==
    LET priced == {r \in tbl : r.product_ref = sale.product_ref /\ r.unit_cost > 0}
    IN  IF priced = {} THEN 0
        ELSE (SumOf(priced, "unit_cost") * CostScale(tbl)) \div Cardinality(priced)

\* a sale_cost averaged over the lots that still hold stock
SaleCostOfLotsInStock(sale, tbl) ==
    LET priced == {r \in tbl : /\ r.product_ref = sale.product_ref
                               /\ r.unit_cost > 0 /\ r.quantity > 0}
    IN  IF priced = {} THEN 0
        ELSE (SumOf(priced, "unit_cost") * sale.quantity * CostScale(tbl))
                 \div Cardinality(priced)

\* sale_cost: the unweighted mean unit_cost of the lots of the sale's
\* Product times the quantity sold, in 1/CostScale(tbl) of a hundredth
SaleCost(sale, tbl) ==
    LET priced == {r \in tbl : r.product_ref = sale.product_ref /\ r.unit_cost > 0}
    IN  IF priced = {} THEN 0
        ELSE (SumOf(priced, "unit_cost") * sale.quantity * CostScale(tbl))
                 \div Cardinality(priced)

RECURSIVE TotalRevenue(_)
TotalRevenue(rows) ==
    IF rows = {} THEN 0
    ELSE LET r == CHOOSE x \in rows : TRUE IN SaleAmount(r) + TotalRevenue(rows \ {r})

RECURSIVE TotalCostOfSales(_, _)
TotalCostOfSales(rows, tbl) ==
    IF rows = {} THEN 0
    ELSE LET r == CHOOSE x \in rows : TRUE
         IN  SaleCost(r, tbl) + TotalCostOfSales(rows \ {r}, tbl)

\* the dashboard page: the low-stock notifications, then revenue and profit;
\* total_cost_of_sales and profit are in 1/cost_scale of a hundredth
DashBoard(p, within_24h) ==
    /\ pc[p] = "idle"
    /\ notifications' = create_low_stock_notifications_consolidated(
                            notifications, stock, managers, within_24h)
    /\ nextNotificationId' = FreshId(notifications')
    /\ Respond(p, [Op("dashBoard") EXCEPT
                      !.within_24h = within_24h,
                      !.total_revenue = TotalRevenue(sales),
                      !.cost_scale = CostScale(stock),
                      !.total_cost_of_sales = TotalCostOfSales(sales, stock),
                      !.profit = TotalRevenue(sales) * CostScale(stock)
                                   - TotalCostOfSales(sales, stock)],
               "ok")
    /\ UNCHANGED <<sales, stock, products, nextSaleId, nextStockId, received,
                   managers, employees, today, calc>>

\* a decorator that asks for a login only
LoginRequired(user) ==
    IF user = AnonymousUser THEN "login" ELSE "run"

\* manager_required: what the wrapper does with a request of user
ManagerRequired(user) ==
    IF user = AnonymousUser THEN "login"
    ELSE IF user \notin managers THEN "AccessDenied"
    ELSE "run"

\* addEmployee (POST) behind manager_required: create_user, the Employee
\* group, one notification per manager; any exception of create_user, a
\* username that is taken among them, is caught and reported
AddEmployee(p, user, username) ==
    /\ pc[p] = "idle"
    /\ LET locals == [Op("addEmployee") EXCEPT !.user = user]
           verdict == ManagerRequired(user)
       IN  IF verdict # "run"
           THEN /\ Respond(p, locals, verdict)
                /\ UNCHANGED <<employees, notifications, nextNotificationId>>
           ELSE IF username \in managers \cup employees
           THEN /\ Respond(p, locals, "Error")
                /\ UNCHANGED <<employees, notifications, nextNotificationId>>
           ELSE /\ employees' = employees \cup {username}
                /\ notifications' = NotifyAll(notifications, managers, "employee",
                                              "success", <<"", "">>)
                /\ nextNotificationId' = FreshId(notifications')
                /\ Respond(p, locals, "ok")
    /\ UNCHANGED <<sales, stock, products, nextSaleId, nextStockId, received, managers,
                   today, calc>>

\* counting the lots of a product instead of adding their quantities
StockDataCount(tbl) ==
    [prod \in StockedProducts(tbl) |-> Cardinality(LotsOf(tbl, prod[1], prod[2]))]

\* Stock.objects.values('product_name', 'product_type')
\*      .annotate(quantity=Sum('quantity')).filter(quantity__gt=0)
StockData(tbl) ==
    [prod \in {q \in StockedProducts(tbl) : TotalAvailable(tbl, q[1], q[2]) > 0} |->
        TotalAvailable(tbl, prod[1], prod[2])]

\* stock_data_api: the consolidated quantities as JSON
StockDataApi(p) ==
    /\ pc[p] = "idle"
    /\ Respond(p, [Op("stock_data_api") EXCEPT !.stock_data = StockData(stock),
                                               !.stock0 = stock, !.sales0 = sales],
               "ok")
    /\ UNCHANGED <<dbvars, today, calc>>

\* mark_notification_read: notif = Notification.objects.get(id=notif_id);
\* notif.is_read = True
MarkNotificationReadGet(p, user, notif_id) ==
    /\ pc[p] = "idle"
    /\ LET found == {i \in 1..Len(notifications) : notifications[i].id = notif_id}
           locals == [Op("mark_notification_read") EXCEPT !.user = user]
       IN  IF found = {}
           THEN Respond(p, locals, "NotFound")
           ELSE Goto(p, "save_notification",
                     [locals EXCEPT
                         !.inst = [notifications[CHOOSE i \in found : TRUE]
                                       EXCEPT !.is_read = TRUE]])
    /\ UNCHANGED <<dbvars, today, calc>>

\* notif.save(): UPDATE the row with this primary key, INSERT it if no row
\* was updated
MarkNotificationReadSave(p) ==
    /\ pc[p] = "save_notification"
    /\ notifications' =
          IF \E i \in 1..Len(notifications) : notifications[i].id = req[p].inst.id
          THEN [i \in 1..Len(notifications) |->
                   IF notifications[i].id = req[p].inst.id THEN req[p].inst
                   ELSE notifications[i]]
          ELSE Append(notifications, req[p].inst)
    /\ Respond(p, req[p], "ok")
    /\ UNCHANGED <<sales, stock, products, nextNotificationId, nextSaleId, nextStockId,
                   received, managers, employees, today, calc>>

\* a request of the logged-in account user
MarkNotificationRead(p, user) ==
    \/ \E notif_id \in 1..nextNotificationId : MarkNotificationReadGet(p, user, notif_id)
    \/ MarkNotificationReadSave(p)

\* mark_all_notifications_read:
\* Notification.objects.filter(user=request.user, is_read=False).update(is_read=True)
MarkAllNotificationsRead(p, user) ==
    /\ pc[p] = "idle"
    /\ notifications' =
          [i \in 1..Len(notifications) |->
              IF notifications[i].user = user /\ ~notifications[i].is_read
              THEN [notifications[i] EXCEPT !.is_read = TRUE]
              ELSE notifications[i]]
    /\ Respond(p, [Op("mark_all_notifications_read") EXCEPT !.user = user], "ok")
    /\ UNCHANGED <<sales, stock, products, nextNotificationId, nextSaleId, nextStockId,
                   received, managers, employees, today, calc>>

\* midnight: date.today() and datetime.now() move to the next day
Tick ==
    /\ today < MaxDay
    /\ today' = today + 1
    /\ UNCHANGED <<dbvars, pc, req, calc>>

----------------------------------------------------------------------------
(* Specifications *)

\* Receipts and sales of one product, one request at a time; a sale of a
\* product that was never received is posted as well.
LedgerProduct == <<"Timber", "Wood">>

LedgerSaleForms ==
    {f \in SaleForms(today) :
        /\ f.unit_price = 10 /\ f.total_sales_amount = 0 /\ ~f.transport_required
        /\ f.product # LedgerProduct => f.quantity = 1 /\ f.date = today}

LedgerStockForms ==
    {f \in StockForms(today) :
        f.product = LedgerProduct /\ f.unit_cost = 5 /\ f.total_cost = 0}

\* one valid sale form and one valid receipt form
OneSaleForm ==
    {f \in SaleForms(today) :
        /\ f.product = LedgerProduct /\ f.quantity = 1 /\ f.unit_price = 10
        /\ f.total_sales_amount = 0 /\ f.date = today /\ ~f.transport_required}

OneStockForm ==
    {f \in StockForms(today) :
        /\ f.product = LedgerProduct /\ f.total_cost = 0 /\ f.unit_cost = 5
        /\ f.quantity = MaxQty /\ f.date = today}

NextLedger ==
    \/ AddSale(1, LedgerSaleForms, MaxSaleRows)
    \/ AddStock(1, LedgerStockForms, MaxStockRows)

SpecLedger == InitNoManager /\ [][NextLedger]_vars

----------------------------------------------------------------------------
(* Properties of the stock ledger *)

SoldQuantity(prod) ==
    SumQuantity({s \in sales : s.product_name = prod[1] /\ s.product_type = prod[2]})

\* C1: with receipts and sales executed one request at a time, the
\* consolidated available quantity of a product is never negative, and
\* between requests it equals the quantity received minus the quantity of
\* the recorded sales.
C1_LedgerBalance ==
    \A prod \in ProductInputs :
        /\ TotalAvailable(stock, prod[1], prod[2]) >= 0
        /\ pc[1] \in {"idle", "done"} =>
              TotalAvailable(stock, prod[1], prod[2]) = received[prod] - SoldQuantity(prod)

\* a sale that took stock from two receipts has been recorded
C1_Witness ==
    /\ pc[1] = "done"
    /\ req[1].op = "addSale" /\ req[1].result = "ok"
    /\ Cardinality(LotsOf(stock, LedgerProduct[1], LedgerProduct[2])) >= 2
    /\ SoldQuantity(LedgerProduct) >= 2
    /\ TotalAvailable(stock, LedgerProduct[1], LedgerProduct[2]) >= 1

\* the response to a valid sale request for more than was available when it
\* was checked
C2_Refused ==
    /\ pc[1] = "done"
    /\ req[1].op = "addSale"
    /\ req[1].result # "ValidationError"
    /\ req[1].total_available < req[1].quantity_to_sell

\* C2, as claimed: a valid sale request for more than the consolidated
\* available quantity always ends in InsufficientStock, with no Sale
\* recorded and no lot changed.
C2_AlwaysInsufficientStock ==
    C2_Refused =>
        /\ req[1].result = "InsufficientStock"
        /\ sales = req[1].sales0
        /\ stock = req[1].stock0

\* C2, amended: such a request always fails, records no Sale and changes no
\* lot; the failure is InsufficientStock when some stock is available and
\* the not-available error when none is.
C2_FailsWithoutDeduction ==
    C2_Refused =>
        /\ req[1].result = (IF req[1].total_available > 0
                            THEN "InsufficientStock" ELSE "NotAvailable")
        /\ sales = req[1].sales0
        /\ stock = req[1].stock0

\* a request for more than a positive available quantity was refused
C2_Witness ==
    /\ C2_Refused
    /\ req[1].result = "InsufficientStock"
    /\ req[1].total_available > 0
    /\ stock # {}

\* the lot of table with the primary key of lot
SameLot(table, lot) == CHOOSE r \in table : r.id = lot.id

Deducted(lot) == lot.quantity - SameLot(stock, lot).quantity

\* C3: when the deduction loop of a successful sale of quantity q is over,
\* the lots of the product that had quantity > 0 were deducted newest date
\* first: a lot was decremented only if every strictly newer positive lot is
\* at 0, at most one lot is partially consumed, nothing was added, and the
\* deductions sum to exactly q.
C3_NewestFirst ==
    pc[1] = "notify" =>
        LET before == PositiveLotsOf(req[1].stock0, req[1].product_name,
                                     req[1].product_type)
        IN  /\ \A lot \in before : \E r \in stock : r.id = lot.id
            /\ \A lot \in before : Deducted(lot) \in 0..lot.quantity
            /\ \A older, newer \in before :
                  (newer.date > older.date /\ Deducted(older) > 0)
                      => SameLot(stock, newer).quantity = 0
            /\ Cardinality({lot \in before :
                               Deducted(lot) > 0 /\ Deducted(lot) < lot.quantity}) <= 1
            /\ TotalAvailable(req[1].stock0, req[1].product_name, req[1].product_type)
                 - TotalAvailable(stock, req[1].product_name, req[1].product_type)
               = req[1].quantity_to_sell

\* the newer lot was emptied and the older one partially consumed
C3_Witness ==
    /\ pc[1] = "notify"
    /\ \E older, newer \in req[1].stock0 :
          /\ newer.date > older.date
          /\ newer.quantity > 0
          /\ SameLot(stock, newer).quantity = 0
          /\ Deducted(older) > 0
          /\ SameLot(stock, older).quantity > 0

----------------------------------------------------------------------------
(* Generated IDs *)

\* receipts dated today or yesterday
DatedStockForms ==
    {f \in StockForms(today) :
        /\ f.product = LedgerProduct /\ f.total_cost = 0 /\ f.unit_cost = 5
        /\ f.quantity = MaxQty /\ f.date <= today}

\* Sales and receipts are created one request at a time and nothing is
\* deleted; days pass between requests.
NextIds ==
    \/ AddSale(1, OneSaleForm, MaxSaleRows)
    \/ AddStock(1, DatedStockForms, MaxStockRows)
    \/ (pc[1] \in {"idle", "done"} /\ Tick)

SpecIds == InitNoManager /\ [][NextIds]_vars

\* the rows of table created on day
CreatedOn(table, day) == {r \in table : r.product_id.day = day}

\* the ID a row created today must get when n rows were created today
\* before it: today's date and n + 1, zero-padded to four digits
ExpectedId(n) == [day |-> today, digits |-> <<0, 0, 0, n + 1>>]

\* the rows of table after a step whose primary key is not in table before
Inserted(before, after) == {r \in after : \A o \in before : o.id # r.id}

\* C5: with one request at a time and no deletions, every Sale and every
\* Stock row is created with the ID of the current day whose sequence is the
\* number of rows of its table created that day plus one, in four digits:
\* 0001 for the first row of a day, 0002 for the next, 0001 again on a new
\* day.
C5_SequentialIds ==
    [][/\ \A r \in Inserted(sales, sales') :
             r.product_id = ExpectedId(Cardinality(CreatedOn(sales, today)))
       /\ \A r \in Inserted(stock, stock') :
             r.product_id = ExpectedId(Cardinality(CreatedOn(stock, today)))]_vars

\* two sales of one day carry 0001 and 0002, and a receipt of the next day
\* carries 0001 like the first receipt of the day before
C5_Witness ==
    /\ \E a, b \in sales :
          /\ a.product_id = [day |-> 1, digits |-> <<0, 0, 0, 1>>]
          /\ b.product_id = [day |-> 1, digits |-> <<0, 0, 0, 2>>]
    /\ \E a, b \in stock :
          /\ a.product_id = [day |-> 1, digits |-> <<0, 0, 0, 1>>]
          /\ b.product_id = [day |-> 2, digits |-> <<0, 0, 0, 1>>]

----------------------------------------------------------------------------
(* Sale totals *)

\* Sale.clean is applied to one instance whose quantity, unit price (in
\* hundredths) and transport flag are drawn from the bounded ranges.
CalcInputs ==
    [phase : {"input"}, quantity : 0..MaxCalcQty, unit_price : 0..MaxCalcPrice,
     transport_required : BOOLEAN, result : {""}, total : {0}]

InitCalc == InitStore({}) /\ calc \in CalcInputs

\* sale.full_clean() on a new Sale dated today with the drawn fields
CalcClean ==
    /\ calc.phase = "input"
    /\ LET inst == [NewSale EXCEPT !.quantity = calc.quantity,
                                   !.unit_price = calc.unit_price,
                                   !.transport_required = calc.transport_required,
                                   !.date = today]
           cleaned == SaleFullClean(inst, today)
       IN  calc' = [calc EXCEPT
                       !.phase = "done",
                       !.result = IF cleaned.errors = {} THEN "ok" ELSE "ValidationError",
                       !.total = cleaned.inst.total_sales_amount]
    /\ UNCHANGED <<dbvars, today, pc, req>>

SpecTotal == InitCalc /\ [][CalcClean]_vars

\* C7: for quantity q > 0 and unit price p > 0, Sale.clean succeeds and sets
\* the total to q*p without transport, and with transport to q*p*1.05 rounded
\* half-up to hundredths: the hundredth T with T - 1/2 <= q*p*1.05 < T + 1/2.
\* Amounts are in hundredths, so q*p is already a whole number of hundredths.
C7_TotalFormula ==
    (calc.phase = "done" /\ calc.quantity > 0 /\ calc.unit_price > 0) =>
        LET exact == calc.quantity * calc.unit_price IN
        /\ calc.result = "ok"
        /\ ~calc.transport_required => calc.total = exact
        /\ calc.transport_required =>
              /\ 100 * calc.total - 50 <= 105 * exact
              /\ 105 * exact < 100 * calc.total + 50

\* a total with transport whose exact value lies halfway between two
\* hundredths, the lower one even, was rounded up
C7_Witness ==
    /\ calc.phase = "done" /\ calc.result = "ok"
    /\ calc.transport_required
    /\ (105 * calc.quantity * calc.unit_price) % 200 = 50
    /\ 100 * calc.total = 105 * calc.quantity * calc.unit_price + 50

----------------------------------------------------------------------------
(* Stored totals *)

\* sale forms for one unit of the product, with every posted unit price,
\* transport flag and total_sales_amount
PostedSaleForms ==
    {f \in SaleForms(today) :
        f.product = LedgerProduct /\ f.quantity = 1 /\ f.date = today}

\* Sales are added, edited and updated, one request at a time.
NextSales ==
    \/ AddSale(1, PostedSaleForms, MaxSaleRows)
    \/ AddStock(1, OneStockForm, MaxStockRows)
    \/ \E row \in sales, f \in PostedSaleForms : EditSale(1, row, f)
    \/ \E row \in sales, t \in TypeInputs : UpdateSale(1, row, t)

SpecSales == InitNoManager /\ [][NextSales]_vars

\* C8: every stored Sale has the total that follows from its own quantity,
\* unit price and transport flag: q*p without transport, q*p*1.05 rounded
\* half-up to hundredths with transport.
C8_TotalDerived ==
    \A s \in sales :
        LET exact == s.quantity * s.unit_price IN
        /\ ~s.transport_required => s.total_sales_amount = exact
        /\ s.transport_required =>
              /\ 100 * s.total_sales_amount - 50 <= 105 * exact
              /\ 105 * exact < 100 * s.total_sales_amount + 50

\* a sale posted with a total of its own was stored by addSale, and another
\* was stored by editSale or updateSale with the transport fee
C8_Witness ==
    /\ pc[1] = "done"
    /\ req[1].op \in {"editSale", "updateSale"} /\ req[1].result = "ok"
    /\ \E s \in sales : s.transport_required /\ s.total_sales_amount = 11
    /\ \E s \in sales : ~s.transport_required /\ s.total_sales_amount = 10

----------------------------------------------------------------------------
(* A request that fails *)

\* The request dies between two statements of addSale (the database
\* connection drops, the worker is killed, a statement raises).  addSale runs
\* in autocommit mode, without transaction.atomic, so whatever its earlier
\* statements wrote stays written.
Fail(p) ==
    /\ pc[p] \notin {"idle", "done"}
    /\ req[p].op = "addSale"
    /\ Respond(p, req[p], "Failure")
    /\ UNCHANGED <<dbvars, today, calc>>

NextFail ==
    \/ AddSale(1, LedgerSaleForms, MaxSaleRows)
    \/ AddStock(1, LedgerStockForms, MaxStockRows)
    \/ Fail(1)

SpecFail == InitNoManager /\ [][NextFail]_vars

\* C9: when an addSale request has ended, normally or by a failure, either
\* its Sale is stored and its full quantity has been deducted from the lots,
\* or no Sale is stored and no lot has changed.
C9_AllOrNothing ==
    (pc[1] = "done" /\ req[1].op = "addSale") =>
        LET stored == Inserted(req[1].sales0, sales) # {}
            deducted ==
                TotalAvailable(req[1].stock0, req[1].product_name, req[1].product_type)
                  - TotalAvailable(stock, req[1].product_name, req[1].product_type)
        IN  \/ stored /\ deducted = req[1].quantity_to_sell
            \/ ~stored /\ stock = req[1].stock0

----------------------------------------------------------------------------
(* The worked example of create_test_data.py *)

\* a receipt of 100 units at 5000.00 each
ScenarioStockForms ==
    {[product |-> LedgerProduct, quantity |-> 100, unit_cost |-> 500000,
      total_cost |-> 0, date |-> today]}

\* a sale of 50 units at 8000.00 each, with or without transport
ScenarioSaleForms ==
    {[product |-> LedgerProduct, quantity |-> 50, unit_price |-> 800000,
      total_sales_amount |-> 0, date |-> today, transport_required |-> t] :
        t \in BOOLEAN}

NextScenario ==
    \/ AddStock(1, ScenarioStockForms, MaxStockRows)
    \/ AddSale(1, ScenarioSaleForms, MaxSaleRows)
    \/ \E within_24h \in BOOLEAN : DashBoard(1, within_24h)

SpecScenario == InitNoManager /\ [][NextScenario]_vars

\* the dashboard is shown after exactly one receipt and then one sale
\* without transport, on an empty store
ScenarioDone ==
    /\ pc[1] = "done" /\ req[1].op = "dashBoard"
    /\ nextStockId = 2 /\ nextSaleId = 2
    /\ \A s \in sales : ~s.transport_required

\* C10: from empty stock, a receipt of 100 units at unit cost 5000 followed
\* by a sale of 50 units at unit price 8000 without transport gives a sale
\* total of 400000, a consolidated stock of 50 and a dashboard profit of
\* 150000 (amounts in hundredths here).
C10_Scenario ==
    ScenarioDone =>
        /\ \A s \in sales : s.total_sales_amount = 40000000
        /\ TotalAvailable(stock, LedgerProduct[1], LedgerProduct[2]) = 50
        /\ req[1].cost_scale = 1
        /\ req[1].profit = 15000000

C10_Witness ==
    /\ ScenarioDone
    /\ Cardinality(sales) = 1 /\ Cardinality(stock) = 1
    /\ req[1].total_revenue = 40000000
    /\ req[1].profit = 15000000

----------------------------------------------------------------------------
(* Dashboard figures *)

\* receipts of one unit at 0.04 or 0.08
DashStockForms ==
    {[product |-> LedgerProduct, quantity |-> 1, unit_cost |-> c,
      total_cost |-> 0, date |-> today] : c \in {4, 8}}

\* sales of one unit at 0.10, with or without transport
DashSaleForms ==
    {f \in PostedSaleForms : f.unit_price = 10 /\ f.total_sales_amount = 0}

\* Lots are received, sold from and deleted, and the dashboard is loaded.
NextDash ==
    \/ AddStock(1, DashStockForms, MaxStockRows)
    \/ AddSale(1, DashSaleForms, MaxSaleRows)
    \/ \E row \in stock : DeleteStock(1, row)
    \/ \E within_24h \in BOOLEAN : DashBoard(1, within_24h)

SpecDash == InitNoManager /\ [][NextDash]_vars

\* quantity times the mean unit_cost of the lots recorded for the product of
\* sale s, in 1/scale of a hundredth: the c with n * c = scale * q * sum
MeanCostOf(s, scale) ==
    LET lots == LotsOf(stock, s.product_name, s.product_type)
        total == scale * s.quantity * SumOf(lots, "unit_cost")
    IN  IF lots = {} THEN 0
        ELSE CHOOSE c \in 0..total : Cardinality(lots) * c = total

RECURSIVE SumOfMeanCosts(_, _)
SumOfMeanCosts(rows, scale) ==
    IF rows = {} THEN 0
    ELSE LET s == CHOOSE x \in rows : TRUE
         IN  MeanCostOf(s, scale) + SumOfMeanCosts(rows \ {s}, scale)

\* C11: the dashboard reports as total_revenue the sum of the totals of all
\* sales, as total_cost_of_sales the sum over all sales of the quantity sold
\* times the unweighted mean unit_cost of all lots of the sale's product (0
\* for a product without lots), and as profit their difference.
C11_DashboardFigures ==
    (pc[1] = "done" /\ req[1].op = "dashBoard") =>
        /\ req[1].total_revenue = SumOf(sales, "total_sales_amount")
        /\ req[1].total_cost_of_sales = SumOfMeanCosts(sales, req[1].cost_scale)
        /\ req[1].profit = req[1].total_revenue * req[1].cost_scale
                             - req[1].total_cost_of_sales

\* one unit sold from two lots costing 0.04 and 0.08, one of them emptied:
\* mean cost 0.06, revenue 0.10, profit 0.04 (in halves of a hundredth)
C11_Witness ==
    /\ pc[1] = "done" /\ req[1].op = "dashBoard"
    /\ Cardinality(sales) = 1
    /\ \E a, b \in stock : a.unit_cost = 4 /\ b.unit_cost = 8 /\ a.quantity # b.quantity
    /\ req[1].cost_scale = 2
    /\ req[1].total_revenue = 10
    /\ req[1].total_cost_of_sales = 12
    /\ req[1].profit = 8

----------------------------------------------------------------------------
(* Lot quantities *)

\* the sale requests served while lots are edited
LotSaleRows == 1

\* receipts and edits of the product dated today, of two units or of a
\* negative quantity, with a posted total
LotForms ==
    {[product |-> LedgerProduct, quantity |-> q, unit_cost |-> 5, total_cost |-> t,
      date |-> today] : q \in {-1, 2}, t \in TotalInputs}

\* sales of one unit or of three
LotSaleForms ==
    {[product |-> LedgerProduct, quantity |-> q, unit_price |-> 10,
      total_sales_amount |-> 0, date |-> today, transport_required |-> FALSE] :
        q \in {1, 3}}

\* One worker serves sale requests statement by statement while another
\* receives, edits and updates lots.
NextLots ==
    \/ AddSale(1, LotSaleForms, LotSaleRows)
    \/ AddStock(2, LotForms, MaxStockRows)
    \/ \E row \in stock, f \in LotForms : EditStock(2, row, f)
    \/ \E row \in stock, t \in {"Wood", "Metal"} : UpdateStock(2, row, t)

SpecLots == InitNoManager /\ [][NextLots]_vars

\* C12: however addStock, editStock, updateStock and addSale follow one
\* another or interleave, every stored lot has quantity >= 0.
C12_NoNegativeLot == \A r \in stock : r.quantity >= 0

\* a sale of two units or more has emptied a lot and carried the remainder to
\* the next one, while the other worker edited or updated a lot
C12_Witness ==
    /\ pc[1] = "done" /\ req[1].op = "addSale" /\ req[1].result = "ok"
    /\ req[1].quantity_to_sell = 3
    /\ Cardinality({r \in req[1].stock0 : r.quantity > 0}) >= 2
    /\ \E r \in stock : r.quantity = 0
    /\ pc[2] = "done" /\ req[2].op \in {"editStock", "updateStock"}

\* C15: every stored lot has total_cost = quantity * unit_cost, after each
\* receipt, each per-lot deduction of a sale and each editStock or
\* updateStock.
C15_TotalCostDerived == \A r \in stock : r.total_cost = r.quantity * r.unit_cost

\* a sale has taken one unit from a lot of two, whose total went from 0.10
\* to 0.05, and the other worker has edited a lot
C15_Witness ==
    /\ pc[1] \in {"deduct", "notify"}
    /\ \E r \in stock :
          /\ r.quantity = 1 /\ r.total_cost = 5
          /\ \E o \in req[1].stock0 : o.id = r.id /\ o.quantity = 2 /\ o.total_cost = 10
    /\ pc[2] = "done" /\ req[2].op = "editStock" /\ req[2].result = "ok"

----------------------------------------------------------------------------
(* Receipts *)

\* every receipt form of the product: quantities from -1, unit costs 0 and
\* 0.05, a posted total, dates from yesterday to tomorrow
ReceiptForms == {f \in StockForms(today) : f.product = LedgerProduct}

NextReceipt == AddStock(1, ReceiptForms, MaxStockRows)

SpecReceipt == InitNoManager /\ [][NextReceipt]_vars

----------------------------------------------------------------------------
(* Rejected sales *)

\* sale forms of both products with every quantity from 0, unit price 0 or
\* 0.10, dated today or tomorrow
CheckedSaleForms ==
    {f \in SaleForms(today) : f.total_sales_amount = 0 /\ ~f.transport_required}

\* Sales are added and edited, one request at a time; only one of the two
\* products is ever received.
NextChecked ==
    \/ AddSale(1, CheckedSaleForms, LotSaleRows)
    \/ AddStock(1, OneStockForm, RaceStockRows)
    \/ \E row \in sales, f \in CheckedSaleForms : EditSale(1, row, f)

SpecChecked == InitNoManager /\ [][NextChecked]_vars

\* C14: saving a Sale with quantity <= 0, unit_price <= 0 or a date in the
\* future fails with ValidationError and leaves the store as it was: the Sale
\* rows, the Product rows and the next ID of the day are unchanged.
C14_RejectedSaleChangesNothing ==
    (/\ pc[1] = "done" /\ req[1].op \in {"addSale", "editSale"}
     /\ \/ req[1].inst.quantity <= 0
        \/ req[1].inst.unit_price <= 0
        \/ req[1].inst.date > today) =>
        /\ req[1].result = "ValidationError"
        /\ sales = req[1].sales0
        /\ products = req[1].products0
        /\ stock = req[1].stock0 \/ req[1].op = "editSale"
        /\ NextProductId(sales, today) = NextProductId(req[1].sales0, today)

\* with a sale stored, a sale of quantity 0 of a product that has no Product
\* row yet was refused
C14_Witness ==
    /\ pc[1] = "done" /\ req[1].op \in {"addSale", "editSale"}
    /\ req[1].result = "ValidationError"
    /\ req[1].inst.quantity = 0 /\ req[1].inst.unit_price > 0
    /\ req[1].inst.date <= today
    /\ sales # {}
    /\ ProductRows(products, req[1].inst.product_name, req[1].inst.product_type) = {}

----------------------------------------------------------------------------
(* The product catalogue *)

\* A lot is received and sold from, and the product type of lots and of
\* sales is updated to whatever is posted.
NextCatalogue ==
    \/ AddStock(1, OneStockForm, MaxStockRows)
    \/ AddSale(1, OneSaleForm, MaxSaleRows)
    \/ \E row \in stock, t \in TypeInputs : UpdateStock(1, row, t)
    \/ \E row \in sales, t \in TypeInputs : UpdateSale(1, row, t)

SpecCatalogue == InitNoManager /\ [][NextCatalogue]_vars

\* C17: every Product row has a name among the six product names and a
\* product_type of Wood or Furniture, also after an updateStock or updateSale
\* with a posted product_type that validation rejects.
C17_ProductChoices ==
    \A pr \in products :
        pr.name \in PRODUCT_CHOICES /\ pr.product_type \in PRODUCT_TYPE_CHOICES

----------------------------------------------------------------------------
(* The notification mailbox *)

\* receipts of two or three units: one lot is low stock, two are not
MailStockForms ==
    {[product |-> LedgerProduct, quantity |-> q, unit_cost |-> 5, total_cost |-> 0,
      date |-> today] : q \in {2, 3}}

\* With one manager: lots are received and sold from, the dashboard is
\* loaded, and notifications are marked read one by one or all at once.
NextMailbox ==
    \/ AddStock(1, MailStockForms, MaxStockRows)
    \/ AddSale(1, OneSaleForm, LotSaleRows)
    \/ \E within_24h \in BOOLEAN : DashBoard(1, within_24h)
    \/ \E user \in managers : MarkNotificationRead(1, user)
    \/ \E user \in managers : MarkAllNotificationsRead(1, user)

SpecMailbox == Init /\ [][NextMailbox]_vars

\* notification n is in the mailbox after the step, with its addressee,
\* message and category, and read if it was read
KeptBy(n, notifs) ==
    \E j \in 1..Len(notifs) :
        /\ notifs[j].id = n.id /\ notifs[j].user = n.user
        /\ notifs[j].message = n.message /\ notifs[j].about = n.about
        /\ notifs[j].activity_type = n.activity_type
        /\ n.is_read => notifs[j].is_read

----------------------------------------------------------------------------
(* Low-stock alerts *)

\* With one manager: lots of two or three units are received and sold from,
\* the dashboard is loaded, and days pass.
NextAlerts ==
    \/ AddStock(1, MailStockForms, MaxStockRows)
    \/ AddSale(1, OneSaleForm, LotSaleRows)
    \/ \E within_24h \in BOOLEAN : DashBoard(1, within_24h)
    \/ Tick

SpecAlerts == Init /\ [][NextAlerts]_vars

\* the low-stock alerts of notifs for user and product prod
AlertsFor(notifs, user, prod) ==
    {i \in 1..Len(notifs) :
        /\ notifs[i].user = user /\ notifs[i].about = prod
        /\ notifs[i].message = "low_stock"}

\* C19: a dashboard load leaves, for every manager and every product whose
\* consolidated quantity q has 0 < q < 5, a low-stock warning for that manager
\* and product created within the last 24 hours; it creates one only for
\* such a product, at most one per manager and product, and only if none
\* created within the last 24 hours existed.
C19_LowStockAlerts ==
    [][\A p \in Procs :
          (pc[p] = "idle" /\ pc'[p] = "done" /\ req'[p].op = "dashBoard") =>
              LET recent(n) == \/ n.created_at >= today
                               \/ n.created_at = today - 1 /\ req'[p].within_24h
                  new == {j \in 1..Len(notifications') :
                             /\ notifications'[j].id >= nextNotificationId
                             /\ notifications'[j].message = "low_stock"}
              IN  /\ \A m \in managers, prod \in StockedProducts(stock) :
                        (/\ 0 < TotalAvailable(stock, prod[1], prod[2])
                         /\ TotalAvailable(stock, prod[1], prod[2]) < 5) =>
                            \E j \in AlertsFor(notifications', m, prod) :
                                /\ notifications'[j].activity_type = "warning"
                                /\ recent(notifications'[j])
                  /\ \A j \in new :
                        LET n == notifications'[j] IN
                        /\ n.user \in managers
                        /\ 0 < TotalAvailable(stock, n.about[1], n.about[2])
                        /\ TotalAvailable(stock, n.about[1], n.about[2]) < 5
                        /\ \A i \in AlertsFor(notifications, n.user, n.about) :
                              ~recent(notifications[i])
                        /\ \A k \in new :
                              (notifications'[k].user = n.user
                                 /\ notifications'[k].about = n.about) => k = j]_vars

\* the product, in two lots, is low on stock, and the manager has an alert
\* of yesterday, outside the window, and the new one of this load
C19_Witness ==
    /\ pc[1] = "done" /\ req[1].op = "dashBoard" /\ ~req[1].within_24h
    /\ TotalAvailable(stock, LedgerProduct[1], LedgerProduct[2]) = 4
    /\ \E i, j \in AlertsFor(notifications, "mgr", LedgerProduct) :
          /\ notifications[i].created_at = today - 1
          /\ notifications[j].created_at = today
          /\ notifications[j].id = nextNotificationId - 1
    /\ \E a, b \in stock : a.id # b.id

----------------------------------------------------------------------------
(* The outcomes of a sale request *)

\* the sale request that has ended was for a product without a lot of
\* positive quantity when it began
NoStockAtAll ==
    PositiveLotsOf(req[1].stock0, req[1].product_name, req[1].product_type) = {}

----------------------------------------------------------------------------
(* Malformed identifiers *)

\* sequence parts typed into the admin form: none, "000A", "0009"
SuffixInputs == {<<>>, <<0, 0, 0, 10>>, <<0, 0, 0, 9>>}

\* receipts of two units of either product
BothStockForms ==
    {[product |-> pr, quantity |-> 2, unit_cost |-> 5, total_cost |-> 0,
      date |-> today] : pr \in ProductInputs}

\* Lots of two products are received and one product is sold, one request at
\* a time, while the product_id of stored rows is edited on the admin site.
NextMalformed ==
    \/ AddStock(1, BothStockForms, MaxStockRows)
    \/ AddSale(1, OneSaleForm, LotSaleRows)
    \/ \E row \in sales, ds \in SuffixInputs : SaleAdminChange(1, row, ds)
    \/ \E row \in stock, ds \in SuffixInputs : StockAdminChange(1, row, ds)

SpecMalformed == InitNoManager /\ [][NextMalformed]_vars

\* C21: when the latest ID of the day has a non-numeric suffix, creating a
\* Sale or a Stock record fails with an error and nothing is persisted: the
\* tables are as they were when the request began.
C21_NothingPersisted ==
    (pc[1] = "done" /\ req[1].result = "ValueError")
        => /\ sales = req[1].sales0
           /\ stock = req[1].stock0
           /\ products = req[1].products0

\* the record itself is never saved by a request that ends in the error
C21_RecordNotSaved ==
    (pc[1] = "done" /\ req[1].result = "ValueError")
        => sales = req[1].sales0 /\ stock = req[1].stock0

----------------------------------------------------------------------------
(* Reading the available quantity *)

\* Receipts and sales are served one at a time; between them the stock data
\* is read by either worker, and a worker may keep what it read.
NextReads ==
    \/ AddStock(1, BothStockForms, MaxStockRows)
    \/ AddSale(1, OneSaleForm, MaxSaleRows)
    \/ StockDataApi(1)
    \/ (pc[1] \in {"idle", "done"} /\ StockDataApi(2))
    \/ Return(2)

SpecReads == InitNoManager /\ [][NextReads]_vars

\* worker p holds the answer of stock_data_api
HoldsStockData(p) == pc[p] = "done" /\ req[p].op = "stock_data_api"

\* worker p holds the total_available that addSale read
HoldsTotal(p) == pc[p] # "idle" /\ req[p].op = "addSale"

\* no receipt and no sale between the reads of p and q: the same lots and the
\* same sales existed at both
NothingBetween(p, q) ==
    /\ req[p].sales0 = req[q].sales0
    /\ {r.id : r \in req[p].stock0} = {r.id : r \in req[q].stock0}

\* the quantity the answer data gives for a product, none listed meaning 0
QuantityIn(data, prod) == IF prod \in DOMAIN data THEN data[prod] ELSE 0

----------------------------------------------------------------------------
(* A day with many records *)

\* the lots received earlier today, one short of the last four-digit number
PriorLots == 10 * 10 * 10 * 10 - 2

\* PriorLots lots of Timber/Wood of two units each were received today, one
\* request after the other, and all but the last one were deleted again
InitBusyDay ==
    /\ managers = {}
    /\ employees = {}
    /\ sales = {}
    /\ stock = {[id |-> PriorLots,
                 product_id |-> [day |-> 1, digits |-> FormatSeq(PriorLots)],
                 date |-> 1, product_name |-> "Timber", product_type |-> "Wood",
                 product_ref |-> 1, quantity |-> 2, unit_cost |-> 5, total_cost |-> 10]}
    /\ products = {Product(1, "Timber", "Wood")}
    /\ notifications = <<>>
    /\ nextNotificationId = 1
    /\ nextSaleId = 1
    /\ nextStockId = PriorLots + 1
    /\ today = 1
    /\ pc = [p \in Procs |-> "idle"]
    /\ req = [p \in Procs |-> NoReq]
    /\ received = [prod \in PRODUCT_CHOICES \X PRODUCT_TYPE_CHOICES |->
                      IF prod = LedgerProduct THEN 2 * PriorLots ELSE 0]
    /\ calc = NoCalc

\* further lots of either product are received and Timber is sold, one
\* request at a time
NextBusyDay ==
    \/ AddStock(1, BothStockForms, PriorLots + MaxStockRows + 1)
    \/ AddSale(1, OneSaleForm, LotSaleRows)

SpecBusyDay == InitBusyDay /\ [][NextBusyDay]_vars

\* the greatest sequence number among today's rows of table, 0 without rows
RECURSIVE MaxSeq(_)
MaxSeq(rows) ==
    IF rows = {} THEN 0
    ELSE LET r == CHOOSE x \in rows : TRUE
             rest == MaxSeq(rows \ {r})
             n == ParseSeq(r.product_id.digits)
         IN  IF n > rest THEN n ELSE rest

\* C23: the row that is lexicographically last among today's IDs is the one
\* with the numerically greatest sequence number, for any number of records
\* of the day (more than 9999 included), so the ID computed for a new lot is
\* the day's greatest sequence plus 1 and equals no existing ID.
C23_LastIsGreatest ==
    pc[1] = "insert_stock" =>
        LET todays == CreatedOn(stock, today)
        IN  /\ ParseSeq(LastOfDay(stock, today).product_id.digits) = MaxSeq(todays)
            /\ ParseSeq(req[1].inst.product_id.digits) = MaxSeq(todays) + 1
            /\ \A r \in stock : r.product_id # req[1].inst.product_id

\* up to 9999 records a day the same holds
C23_UpToFourDigits ==
    (pc[1] = "insert_stock" /\ MaxSeq(CreatedOn(stock, today)) < 10 * 10 * 10 * 10 - 1) =>
        LET todays == CreatedOn(stock, today)
        IN  /\ ParseSeq(LastOfDay(stock, today).product_id.digits) = MaxSeq(todays)
            /\ ParseSeq(req[1].inst.product_id.digits) = MaxSeq(todays) + 1
            /\ \A r \in stock : r.product_id # req[1].inst.product_id

----------------------------------------------------------------------------
(* Notifications of sales and receipts *)

\* With two accounts in the Manager group: lots of 2 or 3 units are received
\* and sale requests of every kind are posted, one request at a time.
NextNotify ==
    \/ AddStock(1, MailStockForms, MaxStockRows)
    \/ AddSale(1, LedgerSaleForms, MaxSaleRows)

SpecNotify == InitWith({"mgr", "boss"}) /\ [][NextNotify]_vars

\* the rows appended to the Notification table by a step
Created(before, after) == SubSeq(after, Len(before) + 1, Len(after))

\* rows holds exactly one notification per manager, each of category kind
OnePerManager(rows, kind) ==
    /\ Len(rows) = Cardinality(managers)
    /\ \A m \in managers :
          \E i \in 1..Len(rows) : rows[i].user = m /\ rows[i].activity_type = kind

\* C25: the step that completes a successful addSale creates exactly one
\* notification of category success for every user in the Manager group, the
\* step that completes a successful addStock exactly one of category info
\* per manager, and no other step of a sale or receipt request creates or
\* changes a notification, so that a sale rejected for validation, a missing
\* product or insufficient stock creates none.
C25_OnePerManager ==
    [][LET succeeds == pc[1] # "done" /\ pc'[1] = "done" /\ req'[1].result = "ok"
           rows == Created(notifications, notifications')
       IN  /\ Len(notifications') >= Len(notifications)
           /\ SubSeq(notifications', 1, Len(notifications)) = notifications
           /\ (succeeds /\ req'[1].op = "addSale") => OnePerManager(rows, "success")
           /\ (succeeds /\ req'[1].op = "addStock") => OnePerManager(rows, "info")
           /\ ~succeeds => rows = <<>>]_vars

\* a sale has succeeded after a receipt and both managers have their two
\* notifications
C25_Witness ==
    /\ pc[1] = "done" /\ req[1].op = "addSale" /\ req[1].result = "ok"
    /\ Len(notifications) = 4
    /\ \A m \in {"mgr", "boss"} :
          /\ \E i \in 1..4 : notifications[i].user = m
                                /\ notifications[i].activity_type = "success"
          /\ \E i \in 1..4 : notifications[i].user = m
                                /\ notifications[i].activity_type = "info"

\* a sale request was rejected for insufficient stock after a receipt and a
\* sale, and the table holds the four notifications of those two only
C25_RejectedWitness ==
    /\ pc[1] = "done" /\ req[1].result = "InsufficientStock"
    /\ Len(notifications) = 4

----------------------------------------------------------------------------
(* The lots a sale changes *)

\* Timber is stocked both as Wood and as Furniture: receipts of one unit of
\* either kind
KindStockForms ==
    {[product |-> <<"Timber", t>>, quantity |-> 1, unit_cost |-> 5, total_cost |-> 0,
      date |-> today] : t \in PRODUCT_TYPE_CHOICES}

\* sales of one or two units of either kind
KindSaleForms ==
    {[product |-> <<"Timber", t>>, quantity |-> q, unit_price |-> 10,
      total_sales_amount |-> 0, date |-> today, transport_required |-> FALSE] :
        t \in PRODUCT_TYPE_CHOICES, q \in {1, 2}}

NextKinds ==
    \/ AddStock(1, KindStockForms, MaxStockRows + 1)
    \/ AddSale(1, KindSaleForms, MaxSaleRows)

SpecKinds == InitNoManager /\ [][NextKinds]_vars

\* C26: a successful addSale for a product (name, type) leaves every lot of
\* every other product as it was when the request began, and every lot of
\* the sold product that had quantity 0 then; it adds and removes no lot.
C26_OnlyLotsOfTheProduct ==
    (pc[1] = "done" /\ req[1].op = "addSale" /\ req[1].result = "ok") =>
        /\ {r.id : r \in stock} = {r.id : r \in req[1].stock0}
        /\ \A lot \in req[1].stock0 :
              (\/ lot.product_name # req[1].product_name
               \/ lot.product_type # req[1].product_type
               \/ lot.quantity = 0) => lot \in stock

\* a sale has succeeded while a lot of the other product and an empty lot of
\* the sold product were in stock, and a lot of the sold product was reduced
C26_Witness ==
    /\ pc[1] = "done" /\ req[1].op = "addSale" /\ req[1].result = "ok"
    /\ \E a, b, c \in req[1].stock0 :
          /\ a.product_type # req[1].product_type /\ a.quantity > 0
          /\ b.product_type = req[1].product_type /\ b.quantity = 0
          /\ c.product_type = req[1].product_type /\ c \notin stock

----------------------------------------------------------------------------
(* Recorded sales that are edited or deleted *)

\* the edit form posted with another quantity, or with another product
RecordedSaleForms ==
    {[product |-> f[1], quantity |-> f[2], unit_price |-> 10, total_sales_amount |-> 0,
      date |-> today, transport_required |-> FALSE] :
        f \in {<<LedgerProduct, 2>>, <<<<"Sofa", "Furniture">>, 1>>}}

\* One worker receives a lot, sells from it and edits and updates recorded
\* sales; a second worker serves the delete requests.
NextRecorded ==
    \/ AddStock(1, OneStockForm, RaceStockRows)
    \/ AddSale(1, OneSaleForm, RaceSaleRows)
    \/ \E row \in sales, f \in RecordedSaleForms : EditSale(1, row, f)
    \/ \E row \in sales : UpdateSale(1, row, "Furniture")
    \/ \E row \in sales : DeleteSale(2, row)
    \/ Return(2)

SpecRecorded == InitNoManager /\ [][NextRecorded]_vars

\* C27: editSale, updateSale and deleteSale leave every stock lot as it is:
\* the step that changes a recorded sale's quantity or product, or deletes
\* the sale, neither deducts nor restores stock.
C27_RecordedSaleLeavesStock ==
    [][\A p \in Procs :
          (pc[p] = "idle" /\ pc'[p] = "done"
              /\ req'[p].op \in {"editSale", "updateSale", "deleteSale"})
            => stock' = stock]_vars

\* a sale of one unit was deleted with its unit already deducted: the lot
\* still lacks the unit, and available quantity is no longer receipts minus
\* recorded sale quantities
C27_Witness ==
    /\ pc[2] = "done" /\ req[2].op = "deleteSale"
    /\ sales = {}
    /\ received[LedgerProduct] = 2
    /\ TotalAvailable(stock, LedgerProduct[1], LedgerProduct[2]) = 1
    /\ TotalAvailable(stock, LedgerProduct[1], LedgerProduct[2])
          # received[LedgerProduct] - SoldQuantity(LedgerProduct)

\* C28: a product_id once assigned to a Sale is never assigned to a different
\* record created later, even when the earlier record has been deleted in
\* between: no stored Sale has the product_id of the Sale a worker has just
\* deleted.
C28_NeverReused ==
    \A p \in Procs :
        (pc[p] = "done" /\ req[p].op = "deleteSale") =>
            \A r \in sales :
                r.id # req[p].inst.id => r.product_id # req[p].inst.product_id

----------------------------------------------------------------------------
(* Whose notifications a request marks *)

\* With two managers and the employee one of them adds: a lot is received,
\* which notifies both managers, and each account posts mark_notification_read
\* and mark_all_notifications_read requests.
NextOwners ==
    \/ AddStock(1, OneStockForm, RaceStockRows)
    \/ AddEmployee(1, "mgr", "emp")
    \/ \E user \in managers \cup employees : MarkNotificationRead(1, user)
    \/ \E user \in managers \cup employees : MarkAllNotificationsRead(1, user)

SpecOwners == InitWith({"mgr", "boss"}) /\ [][NextOwners]_vars

\* the step is one of a request of kind op, and it leaves every notification
\* that is not addressed to the requesting account as it was
LeavesOthers(op) ==
    \A p \in Procs :
        (req'[p].op = op /\ pc'[p] # pc[p]) =>
            /\ Len(notifications') = Len(notifications)
            /\ \A i \in 1..Len(notifications) :
                  notifications[i].user # req'[p].user
                      => notifications'[i] = notifications[i]

\* C29: a request by user U to mark_notification_read or to
\* mark_all_notifications_read changes the read flag only of notifications
\* addressed to U; notifications addressed to any other user are unchanged.
C29_OwnNotificationsOnly ==
    [][LeavesOthers("mark_notification_read")
         /\ LeavesOthers("mark_all_notifications_read")]_vars

\* the same for mark_all_notifications_read alone
C29_MarkAllOwnOnly == [][LeavesOthers("mark_all_notifications_read")]_vars

----------------------------------------------------------------------------
(* Views for managers only *)

\* With two managers: addEmployee is requested without a login, by a
\* manager and by the employees added so far; lots are received and the
\* managers mark their notifications read.
NextStaff ==
    \/ \E user \in {AnonymousUser} \cup managers \cup employees,
          username \in UsernameInputs : AddEmployee(1, user, username)
    \/ AddStock(1, OneStockForm, RaceStockRows)
    \/ \E user \in managers : MarkAllNotificationsRead(1, user)

SpecStaff == InitWith({"mgr", "boss"}) /\ [][NextStaff]_vars

\* C30: a view wrapped by manager_required (addEmployee) runs its body only
\* for an authenticated user of the Manager group: a request without a login
\* is redirected to the login page, a request of an authenticated account
\* that is no manager is redirected to the dashboard with the access-denied
\* message, and neither creates an account or changes any table.
C30_ManagersOnly ==
    [][\A p \in Procs :
          (pc[p] = "idle" /\ pc'[p] = "done" /\ req'[p].op = "addEmployee") =>
              LET user == req'[p].user
                  unchanged == UNCHANGED <<dbvars, today>>
              IN  /\ user = AnonymousUser
                        => (req'[p].result = "login" /\ unchanged)
                  /\ (user # AnonymousUser /\ user \notin managers)
                        => (req'[p].result = "AccessDenied" /\ unchanged)
                  /\ (req'[p].result \in {"ok", "Error"} \/ ~unchanged)
                        => user \in managers]_vars

\* an employee that a manager has added asked for addEmployee and was
\* refused; the employee's account is the only one added
C30_Witness ==
    /\ pc[1] = "done" /\ req[1].op = "addEmployee"
    /\ req[1].user \in employees
    /\ req[1].result = "AccessDenied"
    /\ Cardinality(employees) = 1

----------------------------------------------------------------------------
(* Two requests at a time *)

\* a receipt of a single unit
UnitStockForm ==
    {f \in StockForms(today) :
        /\ f.product = LedgerProduct /\ f.total_cost = 0 /\ f.unit_cost = 5
        /\ f.quantity = 1 /\ f.date = today}

\* Two workers serve sale requests for one product, statement by statement,
\* while single units are received.
NextOversell ==
    \/ \E p \in Procs : AddSale(p, OneSaleForm, RaceSaleRows)
    \/ AddStock(1, UnitStockForm, RaceStockRows)

SpecOversell == InitNoManager /\ [][NextOversell]_vars

AllIdle == \A p \in Procs : pc[p] \in {"idle", "done"}

\* C4: however two concurrent sale requests for one product interleave, the
\* quantity of the recorded sales never exceeds the quantity received, and
\* once the requests have ended every recorded sale has been deducted in
\* full from the lots.
C4_NoOversell ==
    /\ SoldQuantity(LedgerProduct) <= received[LedgerProduct]
    /\ AllIdle =>
          TotalAvailable(stock, LedgerProduct[1], LedgerProduct[2])
              = received[LedgerProduct] - SoldQuantity(LedgerProduct)

\* C24: ID generation is not safe against concurrent callers.  Two new Sale
\* saves of the same day that have both read the latest ID from the table as
\* it still is hold the same product_id; of two saves that computed the same
\* product_id at most one is persisted, and the insert of a product_id that
\* is already stored is rejected by the uniqueness constraint and ends the
\* request, without another attempt.
C24_SameIdOneSaved ==
    /\ [](\A p, q \in Procs :
            /\ (p # q /\ pc[p] = "insert_sale" /\ pc[q] = "insert_sale"
                    /\ req[p].sales0 = sales /\ req[q].sales0 = sales)
                  => req[p].inst.product_id = req[q].inst.product_id
            /\ (p # q /\ req[p].op = "addSale" /\ req[q].op = "addSale"
                    /\ req[p].inst.product_id # NoProductId
                    /\ req[p].inst.product_id = req[q].inst.product_id)
                  => (req[p].inst.id = 0 \/ req[q].inst.id = 0))
    /\ [][\A p \in Procs :
            (pc[p] = "insert_sale" /\ pc'[p] # "insert_sale"
                /\ \E r \in sales : r.product_id = req[p].inst.product_id)
              => /\ pc'[p] = "done"
                 /\ req'[p].result = "IntegrityError"
                 /\ sales' = sales]_vars

\* both workers began their sale on the same table and computed the same
\* product_id; one row with it is stored and the other request has ended in
\* the constraint's error
C24_Witness ==
    \E p, q \in Procs :
        /\ p # q
        /\ req[p].op = "addSale" /\ req[q].op = "addSale"
        /\ req[p].sales0 = req[q].sales0
        /\ req[p].inst.product_id = req[q].inst.product_id
        /\ pc[p] = "done" /\ req[p].result = "IntegrityError"
        /\ req[q].inst \in sales
        /\ Cardinality({r \in sales : r.product_id = req[p].inst.product_id}) = 1

\* receipts of one unit of either product
PairStockForms ==
    {f \in StockForms(today) :
        f.total_cost = 0 /\ f.unit_cost = 5 /\ f.quantity = 1 /\ f.date = today}

\* sales of one unit of either product
PairSaleForms ==
    {f \in SaleForms(today) :
        /\ f.quantity = 1 /\ f.unit_price = 10 /\ f.total_sales_amount = 0
        /\ f.date = today /\ ~f.transport_required}

\* Two workers receive lots of two products, statement by statement; sales
\* are added, and the product type of a sale or of a lot is updated.
NextProducts ==
    \/ \E p \in Procs : AddStock(p, PairStockForms, RaceStockRows)
    \/ AddSale(1, PairSaleForms, LotSaleRows)
    \/ \E row \in sales, t \in PRODUCT_TYPE_CHOICES : UpdateSale(1, row, t)
    \/ \E row \in stock, t \in PRODUCT_TYPE_CHOICES : UpdateStock(1, row, t)

SpecProducts == InitNoManager /\ [][NextProducts]_vars

\* C16: no two Product rows have the same name and product_type, so that a
\* save for a pair that has its Product creates none, and every stored Sale
\* and every stored lot references the one Product with its own product_name
\* and product_type.
C16_OneProductPerPair ==
    /\ \A a, b \in products :
          (a.name = b.name /\ a.product_type = b.product_type) => a = b
    /\ \A r \in sales :
          /\ ProductRows(products, r.product_name, r.product_type) # {}
          /\ \A pr \in ProductRows(products, r.product_name, r.product_type) :
                pr.id = r.product_ref
    /\ \A r \in stock :
          /\ ProductRows(products, r.product_name, r.product_type) # {}
          /\ \A pr \in ProductRows(products, r.product_name, r.product_type) :
                pr.id = r.product_ref

\* two workers received the first lot of a product at the same time: one
\* created the Product and stored its lot, the other's create was refused
C16_Witness ==
    \E p \in Procs :
        /\ pc[p] = "done" /\ req[p].op = "addStock"
        /\ req[p].result = "IntegrityError"
        /\ req[p].inst.product_ref = 0
        /\ Cardinality(ProductRows(products, req[p].product_name,
                                   req[p].product_type)) = 1
        /\ \E r \in stock :
              r.product_name = req[p].product_name /\ r.product_ref # 0

\* Two workers create sales and receipts; sales are deleted, and saved again
\* by updateSale.
NextRace ==
    \/ \E p \in Procs : AddSale(p, OneSaleForm, RaceSaleRows)
    \/ \E p \in Procs : AddStock(p, UnitStockForm, RaceStockRows)
    \/ \E row \in sales : DeleteSale(1, row)
    \/ \E row \in sales : UpdateSale(1, row, "Wood")

SpecRace == InitNoManager /\ [][NextRace]_vars

\* C6: no two stored Sale rows share a product_id and no two stored Stock
\* rows share a product_id.
C6_UniqueIds ==
    /\ \A a, b \in sales : a.product_id = b.product_id => a.id = b.id
    /\ \A a, b \in stock : a.product_id = b.product_id => a.id = b.id

\* an insert was refused because the other worker had stored a row with the
\* same generated product_id
C6_Witness ==
    \E p \in Procs :
        /\ pc[p] = "done"
        /\ req[p].result = "IntegrityError"
        /\ \/ /\ req[p].op = "addSale"
              /\ \E r \in sales : r.product_id = req[p].inst.product_id
           \/ /\ req[p].op = "addStock"
              /\ \E r \in stock : r.product_id = req[p].inst.product_id

====
